---- MODULE Spec2Model ----
(***************************************************************************)
(* Work-item service: the lifecycle engine (createWorkItem, updateWorkItem, *)
(* deleteWorkItem, getWorkItemById) of WorkItemService over a PostgreSQL    *)
(* store used through DatabaseService.transaction (read committed), the     *)
(* policy gateway CedarAuthService and the event sink MessageQueueService.  *)
(*                                                                          *)
(* A request runs as a process; each action is one await of the handler     *)
(* that touches the store or the event sink, together with the local code  *)
(* around it.  Writes made through the transaction's client are buffered in *)
(* tx[p] and reach the committed tables at COMMIT; reads made through       *)
(* this.db.query (getWorkItemById) see the committed tables only.           *)
(***************************************************************************)
EXTENDS Integers, Sequences, FiniteSets, TLC

VARIABLES
  work_items,      \* committed rows of table work_items
  lineage_edges,   \* committed rows of table lineage_edges
  status_history,  \* committed rows of table status_history, in append order
  events,          \* messages handed to the event sink, in publish order
  locks,           \* row locks held by open transactions on work_items rows
  pc,              \* per request: the await the handler is suspended at
  op,              \* per request: the operation and its arguments
  loc,             \* per request: the handler's local variables
  tx,              \* per request: uncommitted writes of its transaction
  result,          \* per request: what the handler returned or threw
  clock,           \* wall clock read by new Date() and NOW()
  uuidCounter,     \* number of identifiers uuidv4() has handed out
  opsStarted,      \* number of requests accepted so far
  call,            \* pure-function harness: the arguments
  ret              \* pure-function harness: the value returned

store == <<work_items, lineage_edges, status_history>>
procVars == <<pc, op, loc, tx, result>>
pureVars == <<call, ret>>
vars == <<work_items, lineage_edges, status_history, events, locks, pc, op, loc,
          tx, result, clock, uuidCounter, opsStarted, call, ret>>

(***************************************************************************)
(* Bounds of the model                                                      *)
(***************************************************************************)
MaxOps == 2          \* requests accepted in one behaviour
MaxChain == 13       \* items of the longest lineage chain a listing is run on
GhostId == 99        \* an identifier uuidv4() never hands out

Procs == {"p1", "p2"}

(***************************************************************************)
(* Types (src/dist/types/index.d.ts)                                        *)
(***************************************************************************)
WorkItemType == {"objective", "strategy", "initiative", "task", "subtask"}
WorkItemStatus == {"draft", "planned", "in_progress", "blocked", "review",
                   "completed", "cancelled"}
WorkItemPriority == {"critical", "high", "medium", "low"}

Undefined == "undefined"   \* an absent string-valued field
NullStatus == "null"       \* from_status of the first history row
NoId == 0                  \* an absent identifier
NullDate == 0              \* an absent timestamp

Roles == {"CEO", "President", "VP", "Director", "Manager", "Contributor"}

\* The principals the authentication layer injects.
Users ==
  { [id |-> "u1", tenant_id |-> "tA", roles |-> {"CEO"}],
    [id |-> "u2", tenant_id |-> "tA", roles |-> {"Contributor"}],
    [id |-> "u3", tenant_id |-> "tB", roles |-> {"Manager"}] }

\* What the remote policy service does with one request.
RemoteOutcomes == {"allow", "deny", "down"}

(***************************************************************************)
(* Lineage validator                                                        *)
(***************************************************************************)
validRelationships(parentType) ==
  CASE parentType = "objective" -> {"strategy"}
    [] parentType = "strategy" -> {"initiative"}
    [] parentType = "initiative" -> {"task"}
    [] parentType = "task" -> {"subtask"}
    [] OTHER -> {}

\* validate, with a strategy also allowed to contain a strategy
validateParentChildRelationship_Loose(parentType, childType) ==
  IF childType \in validRelationships(parentType) \cup
                   (IF parentType = "strategy" THEN {"strategy"} ELSE {})
    THEN [valid |-> TRUE, errors |-> <<>>, warnings |-> <<>>]
    ELSE [valid |-> FALSE,
          errors |-> << <<parentType, " cannot contain ", childType>> >>,
          warnings |-> <<>>]

\* validate, with an error message that names the parent type only
validateParentChildRelationship_Terse(parentType, childType) ==
  IF childType \in validRelationships(parentType)
    THEN [valid |-> TRUE, errors |-> <<>>, warnings |-> <<>>]
    ELSE [valid |-> FALSE,
          errors |-> << <<parentType, " cannot contain ", "children">> >>,
          warnings |-> <<>>]

\* The error message is the template `${parentType} cannot contain ${childType}`,
\* kept as the sequence of its three pieces.
validateParentChildRelationship(parentType, childType) ==
  IF childType \in validRelationships(parentType)
    THEN [valid |-> TRUE, errors |-> <<>>, warnings |-> <<>>]
    ELSE [valid |-> FALSE,
          errors |-> << <<parentType, " cannot contain ", childType>> >>,
          warnings |-> <<>>]

(***************************************************************************)
(* Policy gateway                                                           *)
(***************************************************************************)
requiredRoles(action) ==
  CASE action = "create" -> {"Manager", "Director", "VP", "President", "CEO"}
    [] action = "update" -> {"Manager", "Director", "VP", "President", "CEO"}
    [] action = "delete" -> {"Director", "VP", "President", "CEO"}
    [] action = "read" -> {"Contributor", "Manager", "Director", "VP",
                           "President", "CEO"}
    [] OTHER -> {}

fallbackAuthorization(user, action, resource) ==
  LET hasRequiredRole == (user.roles \cap requiredRoles(action)) # {}
      sameTenant == user.tenant_id = resource.tenant_id
      isOwner == resource.owner_id = user.id
  IN sameTenant /\ (hasRequiredRole \/ isOwner)

\* evaluatePolicy as compiled in dist/services/cedarAuthService.js: the try
\* block is that of the source; the catch block denies.
evaluatePolicy_dist(user, action, resource, remote) ==
  CASE remote = "allow" ->
         [allowed |-> TRUE, policy_id |-> "remote_policy", reason |-> "remote"]
    [] remote = "deny" ->
         [allowed |-> FALSE, policy_id |-> "remote_policy", reason |-> "remote"]
    [] OTHER ->
         [allowed |-> FALSE, policy_id |-> "error_deny",
          reason |-> "Policy evaluation failed - defaulting to deny"]

\* the gateway that denies on every failure of the remote call
evaluatePolicy_FailClosed(user, action, resource, remote) ==
  evaluatePolicy_dist(user, action, resource, remote)

\* the gateway that takes a denial of the service for a failure of the call
evaluatePolicy_DenyFallsBack(user, action, resource, remote) ==
  CASE remote = "allow" ->
         [allowed |-> TRUE, policy_id |-> "remote_policy", reason |-> "remote"]
    [] OTHER ->
         LET allowed == fallbackAuthorization(user, action, resource)
         IN [allowed |-> allowed, policy_id |-> "fallback_authorization",
             reason |-> IF allowed THEN "Authorized via fallback role-based check"
                                   ELSE "Denied by fallback authorization"]

\* remote: what the policy service does with this request.  A decision of the
\* service is returned as given; any failure falls back to the role table.
evaluatePolicy(user, action, resource, remote) ==
  CASE remote = "allow" ->
         [allowed |-> TRUE, policy_id |-> "remote_policy", reason |-> "remote"]
    [] remote = "deny" ->
         [allowed |-> FALSE, policy_id |-> "remote_policy", reason |-> "remote"]
    [] OTHER ->
         LET allowed == fallbackAuthorization(user, action, resource)
         IN [allowed |-> allowed, policy_id |-> "fallback_authorization",
             reason |-> IF allowed THEN "Authorized via fallback role-based check"
                                   ELSE "Denied by fallback authorization"]

\* the executive test, passed by every principal that holds any role
hasExecRole_AnyRole(user) == user.roles # {}

hasExecRole(user) == (user.roles \cap {"CEO", "President"}) # {}

LineageRuleReason ==
  "Non-objective work items require a parent unless created by CEO or President"

\* the create check, with the parent rule applied to objectives too
canCreateWorkItem_NoExemption(user, workItemType, parentId, remote) ==
  LET r == evaluatePolicy(user, "create",
             [type |-> workItemType, tenant_id |-> user.tenant_id,
              owner_id |-> Undefined], remote)
  IN IF ~r.allowed THEN [allowed |-> FALSE, reason |-> r.reason]
     ELSE IF parentId = NoId /\ ~hasExecRole(user)
       THEN [allowed |-> FALSE, reason |-> LineageRuleReason]
       ELSE [allowed |-> TRUE, reason |-> Undefined]

canCreateWorkItem(user, workItemType, parentId, remote) ==
  LET r == evaluatePolicy(user, "create",
             [type |-> workItemType, tenant_id |-> user.tenant_id,
              owner_id |-> Undefined], remote)
  IN IF ~r.allowed THEN [allowed |-> FALSE, reason |-> r.reason]
     ELSE IF workItemType # "objective" /\ parentId = NoId /\ ~hasExecRole(user)
       THEN [allowed |-> FALSE, reason |-> LineageRuleReason]
       ELSE [allowed |-> TRUE, reason |-> Undefined]

\* the update check that lets every principal through
canUpdateWorkItem_Always(user, workItem, remote) == TRUE

canUpdateWorkItem(user, workItem, remote) ==
  evaluatePolicy(user, "update", workItem, remote).allowed

canDeleteWorkItem(user, workItem, remote) ==
  evaluatePolicy(user, "delete", workItem, remote).allowed

canReadWorkItem(user, workItem, remote) ==
  evaluatePolicy(user, "read", workItem, remote).allowed

(***************************************************************************)
(* Rows, requests and the transaction's write set                           *)
(***************************************************************************)
\* CreateWorkItemRequest: of one of the given types, under one of the given
\* parents.
CreateRequests(types, parentIds) ==
  { [type |-> t, title |-> "t1", description |-> Undefined,
     priority |-> Undefined, owner_id |-> Undefined, due_at |-> Undefined,
     parent_id |-> par, metadata |-> Undefined] :
      t \in types, par \in parentIds }

\* UpdateWorkItemRequest with no field present.
EmptyRequest ==
  [title |-> Undefined, description |-> Undefined, status |-> Undefined,
   priority |-> Undefined, owner_id |-> Undefined, due_at |-> Undefined,
   metadata |-> Undefined]

StartRequest == [EmptyRequest EXCEPT !.status = "in_progress"]
CompleteRequest == [EmptyRequest EXCEPT !.status = "completed"]
ReassignRequest == [EmptyRequest EXCEPT !.owner_id = "u2"]
RetitleRequest == [EmptyRequest EXCEPT !.title = "t2", !.priority = "high"]

EmptyTx == [items |-> {}, edges |-> {}, hist |-> <<>>, upd |-> {}, del |-> {}]

NoOp == [kind |-> "none", user |-> CHOOSE u \in Users : u.id = "u1",
         id |-> NoId, data |-> EmptyRequest]

EmptyLoc ==
  [txStart |-> NullDate,
   lineageCheck |-> [allowed |-> FALSE, reason |-> Undefined],
   parentChecked |-> FALSE, parent |-> {}, validation |-> {},
   existing |-> {}, readDenied |-> FALSE, canUpdate |-> FALSE,
   canDelete |-> FALSE, authorized |-> FALSE, workItemId |-> NoId,
   now |-> NullDate, returned |-> {}]

NoResult == [ok |-> FALSE, err |-> "pending", value |-> {}]

Ids(rows) == {w.id : w \in rows}

\* Rows of work_items with this id (the primary key: at most one).
RowsById(id) == {w \in work_items : w.id = id}

\* The tables after a transaction's write set is applied: inserted rows are
\* added, the updated row replaces its old version, a deleted row goes together
\* with every row that references it (ON DELETE CASCADE).
ItemsAfter(t) ==
  {w \in work_items : w.id \notin t.del /\ w.id \notin Ids(t.upd)}
    \cup {u \in t.upd : u.id \in Ids(work_items) /\ u.id \notin t.del}
    \cup t.items

\* the edge table without the cascade of a delete
EdgesAfter_NoCascade(t) == lineage_edges \cup t.edges

EdgesAfter(t) ==
  {e \in lineage_edges \cup t.edges :
     e.parent_id \notin t.del /\ e.child_id \notin t.del}

\* the history table with the new rows put before the old ones
HistoryAfter_Prepend(t) ==
  LET Keep(r) == r.work_item_id \notin t.del
  IN SelectSeq(t.hist \o status_history, Keep)

\* the history table without the cascade of a delete
HistoryAfter_NoCascade(t) == status_history \o t.hist

HistoryAfter(t) ==
  LET Keep(r) == r.work_item_id \notin t.del
  IN SelectSeq(status_history \o t.hist, Keep)

\* ROLLBACK that lets the inserted work-item rows through
Rollback_KeepItems(t) == [EmptyTx EXCEPT !.items = t.items]

\* What of a write set reaches the tables on ROLLBACK: nothing.
Rollback(t) == EmptyTx

\* What of a write set reaches the tables on COMMIT: all of it.
Commit(t) == t

Apply(t) ==
  /\ work_items' = ItemsAfter(t)
  /\ lineage_edges' = EdgesAfter(t)
  /\ status_history' = HistoryAfter(t)

ReleaseLocks(p) == locks' = {l \in locks : l.owner # p}

\* The callback threw: transaction() rolls back, releases the client and
\* rethrows to the caller.
Throw(p, err) ==
  /\ pc' = [pc EXCEPT ![p] = "done"]
  /\ result' = [result EXCEPT ![p] = [ok |-> FALSE, err |-> err, value |-> {}]]
  /\ Apply(Rollback(tx[p]))
  /\ tx' = [tx EXCEPT ![p] = EmptyTx]
  /\ ReleaseLocks(p)

\* Row locks of PostgreSQL on work_items rows.  "share" is FOR KEY SHARE, taken
\* by an insert that references the row; "upd" is FOR NO KEY UPDATE, taken by
\* UPDATE; "del" is FOR UPDATE, taken by DELETE.

\* the lock table with every lock exclusive
LockConflicts_Exclusive(mode) == {"share", "upd", "del"}

LockConflicts(mode) ==
  CASE mode = "share" -> {"del"}
    [] mode = "upd" -> {"upd", "del"}
    [] OTHER -> {"share", "upd", "del"}

CanLock(p, id, mode) ==
  \A l \in locks : (l.id = id /\ l.owner # p) => l.mode \notin LockConflicts(mode)

Lock(p, id, mode) == [id |-> id, owner |-> p, mode |-> mode]

Event(type, exchange, itemId, user, before, after, parentId) ==
  [type |-> type, routingKey |-> <<exchange, type>>, work_item_id |-> itemId,
   tenant_id |-> user.tenant_id, user_id |-> user.id, before |-> before,
   after |-> after, parent_id |-> parentId]

(***************************************************************************)
(* getWorkItemById                                                          *)
(***************************************************************************)
\* The row is there, in the principal's tenant, and canReadWorkItem says no.
ReadDenied(user, workItemId, remote) ==
  \E w \in RowsById(workItemId) :
    w.tenant_id = user.tenant_id /\ ~canReadWorkItem(user, w, remote)

\* the lookup that hands the row over whatever canReadWorkItem says
getWorkItemById_NoReadCheck(user, workItemId, remote) ==
  {w \in RowsById(workItemId) : w.tenant_id = user.tenant_id}

\* the lookup without the tenant filter
getWorkItemById_AnyTenant(user, workItemId, remote) ==
  LET rows == RowsById(workItemId)
  IN IF rows = {} THEN {}
     ELSE IF canReadWorkItem(user, CHOOSE w \in rows : TRUE, remote)
       THEN rows ELSE {}

\* The result is a set: empty for null, else the one row.
getWorkItemById(user, workItemId, remote) ==
  LET rows == {w \in RowsById(workItemId) : w.tenant_id = user.tenant_id}
  IN IF rows = {} THEN {}
     ELSE IF canReadWorkItem(user, CHOOSE w \in rows : TRUE, remote)
       THEN rows ELSE {}

(***************************************************************************)
(* Init, and accepting a request: transaction() takes a client and BEGINs   *)
(***************************************************************************)
Init ==
  /\ work_items = {}
  /\ lineage_edges = {}
  /\ status_history = <<>>
  /\ events = <<>>
  /\ locks = {}
  /\ pc = [p \in Procs |-> "idle"]
  /\ op = [p \in Procs |-> NoOp]
  /\ loc = [p \in Procs |-> EmptyLoc]
  /\ tx = [p \in Procs |-> EmptyTx]
  /\ result = [p \in Procs |-> NoResult]
  /\ clock = 1
  /\ uuidCounter = 0
  /\ opsStarted = 0
  /\ call = [fn |-> "none"]
  /\ ret = [fn |-> "none"]

\* Identifiers a caller may name: those of committed items, and one of no item.
KnownIds == Ids(work_items) \cup {GhostId}

\* Requests are interchangeable between handlers: a request is taken by the
\* first idle one.
FirstIdle(p) == p = "p1" \/ pc["p1"] # "idle"

Begin(p, o, first) ==
  /\ pc[p] = "idle"
  /\ FirstIdle(p)
  /\ opsStarted' = opsStarted + 1
  /\ op' = [op EXCEPT ![p] = o]
  /\ loc' = [loc EXCEPT ![p] = [EmptyLoc EXCEPT !.txStart = clock]]
  /\ tx' = [tx EXCEPT ![p] = EmptyTx]
  /\ result' = [result EXCEPT ![p] = NoResult]
  /\ pc' = [pc EXCEPT ![p] = first]
  /\ UNCHANGED <<store, events, locks, clock, uuidCounter, pureVars>>

\* Types and update requests the callers of Spec send.
CreateTypes == {"objective", "strategy"}
UpdateRequests == {EmptyRequest, StartRequest, ReassignRequest}

StartCreate(p) ==
  /\ opsStarted < MaxOps
  /\ \E u \in Users, d \in CreateRequests(CreateTypes, KnownIds \cup {NoId}) :
       Begin(p, [kind |-> "create", user |-> u, id |-> NoId, data |-> d],
             "c_check")

StartUpdate(p) ==
  /\ opsStarted < MaxOps
  /\ \E u \in Users, id \in KnownIds, d \in UpdateRequests :
       Begin(p, [kind |-> "update", user |-> u, id |-> id, data |-> d], "u_read")

StartDelete(p) ==
  /\ opsStarted < MaxOps
  /\ \E u \in Users, id \in KnownIds :
       Begin(p, [kind |-> "delete", user |-> u, id |-> id, data |-> EmptyRequest],
             "d_read")

(***************************************************************************)
(* createWorkItem                                                           *)
(***************************************************************************)
\* 1. the lineage enforcement check
CreateCheck(p) ==
  /\ pc[p] = "c_check"
  /\ \E remote \in RemoteOutcomes :
       LET lineageCheck == canCreateWorkItem(op[p].user, op[p].data.type,
                                             op[p].data.parent_id, remote)
       IN /\ loc' = [loc EXCEPT ![p].lineageCheck = lineageCheck,
                                 ![p].authorized = lineageCheck.allowed]
          /\ IF ~lineageCheck.allowed
               THEN Throw(p, "LINEAGE_REQUIRED")
               ELSE /\ pc' = [pc EXCEPT ![p] =
                         IF op[p].data.parent_id # NoId THEN "c_parent"
                                                        ELSE "c_insert"]
                    /\ UNCHANGED <<store, tx, result, locks>>
  /\ UNCHANGED <<events, op, clock, uuidCounter, opsStarted, pureVars>>

\* 2. the parent is loaded and the pair of types validated
CreateParent(p) ==
  /\ pc[p] = "c_parent"
  /\ \E remote \in RemoteOutcomes :
       LET parent == getWorkItemById(op[p].user, op[p].data.parent_id, remote)
           v == validateParentChildRelationship(
                  (CHOOSE w \in parent : TRUE).type, op[p].data.type)
       IN IF parent = {}
            THEN /\ loc' = [loc EXCEPT ![p].parentChecked = TRUE]
                 /\ Throw(p, "PARENT_NOT_FOUND")
            ELSE /\ loc' = [loc EXCEPT ![p].parentChecked = TRUE,
                                       ![p].parent = parent,
                                       ![p].validation = {v}]
                 /\ IF ~v.valid
                      THEN Throw(p, "INVALID_HIERARCHY")
                      ELSE /\ pc' = [pc EXCEPT ![p] = "c_insert"]
                           /\ UNCHANGED <<store, tx, result, locks>>
  /\ UNCHANGED <<events, op, clock, uuidCounter, opsStarted, pureVars>>

\* the row that takes the status the request carries
NewWorkItem_RequestStatus(workItemId, user, data, now) ==
  [id |-> workItemId,
   tenant_id |-> user.tenant_id,
   type |-> data.type,
   title |-> data.title,
   description |-> IF data.description = Undefined THEN "" ELSE data.description,
   status |-> IF "status" \in DOMAIN data /\ data.status # Undefined
                THEN data.status ELSE "draft",
   priority |-> IF data.priority = Undefined THEN "medium" ELSE data.priority,
   created_by |-> user.id,
   owner_id |-> IF data.owner_id = Undefined THEN user.id ELSE data.owner_id,
   due_at |-> IF data.due_at = Undefined THEN "null" ELSE data.due_at,
   started_at |-> NullDate,
   completed_at |-> NullDate,
   created_at |-> now,
   updated_at |-> now,
   metadata |-> IF data.metadata = Undefined THEN "{}" ELSE data.metadata]

\* The row INSERT INTO work_items is given.
NewWorkItem(workItemId, user, data, now) ==
  [id |-> workItemId,
   tenant_id |-> user.tenant_id,
   type |-> data.type,
   title |-> data.title,
   description |-> IF data.description = Undefined THEN "" ELSE data.description,
   status |-> "draft",
   priority |-> IF data.priority = Undefined THEN "medium" ELSE data.priority,
   created_by |-> user.id,
   owner_id |-> IF data.owner_id = Undefined THEN user.id ELSE data.owner_id,
   due_at |-> IF data.due_at = Undefined THEN "null" ELSE data.due_at,
   started_at |-> NullDate,
   completed_at |-> NullDate,
   created_at |-> now,
   updated_at |-> now,
   metadata |-> IF data.metadata = Undefined THEN "{}" ELSE data.metadata]

\* 3. INSERT INTO work_items
CreateInsert(p) ==
  /\ pc[p] = "c_insert"
  /\ uuidCounter' = uuidCounter + 1
  /\ clock' = clock + 1
  /\ LET workItemId == uuidCounter + 1
         workItem == NewWorkItem(workItemId, op[p].user, op[p].data, clock)
     IN /\ loc' = [loc EXCEPT ![p].workItemId = workItemId, ![p].now = clock,
                              ![p].returned = {workItem}]
        /\ \E fails \in BOOLEAN :
             IF fails
               THEN Throw(p, "STORE_ERROR")
               ELSE /\ tx' = [tx EXCEPT ![p].items = @ \cup {workItem}]
                    /\ pc' = [pc EXCEPT ![p] =
                         IF op[p].data.parent_id # NoId THEN "c_edge"
                                                        ELSE "c_hist"]
                    /\ UNCHANGED <<store, result, locks>>
  /\ UNCHANGED <<events, op, opsStarted, pureVars>>

\* the edge row with parent and child exchanged
LineageEdgeRow_Swapped(lineageId, user, parentId, childId) ==
  [id |-> lineageId, tenant_id |-> user.tenant_id, parent_id |-> childId,
   child_id |-> parentId, relation_type |-> "contains", created_by |-> user.id]

\* The row createLineageEdge inserts.
LineageEdgeRow(lineageId, user, parentId, childId) ==
  [id |-> lineageId, tenant_id |-> user.tenant_id, parent_id |-> parentId,
   child_id |-> childId, relation_type |-> "contains", created_by |-> user.id]

\* UNIQUE(parent_id, child_id) of lineage_edges: the pairs that are taken.
EdgePairs(edges) == {<<e.parent_id, e.child_id>> : e \in edges}

\* Another transaction has inserted the pair and is undecided: an insert of
\* the same pair waits for its COMMIT or ROLLBACK.
PairPending(p, parentId, childId) ==
  \E q \in Procs \ {p} : <<parentId, childId>> \in EdgePairs(tx[q].edges)

\* 4. createLineageEdge: INSERT INTO lineage_edges.  The foreign key on
\* parent_id needs the parent row to be there and takes a key-share lock on
\* it; the insert waits while a DELETE of the parent is undecided.  The pair
\* (parent_id, child_id) must not be taken.
CreateEdge(p) ==
  /\ pc[p] = "c_edge"
  /\ CanLock(p, op[p].data.parent_id, "share")
  /\ ~PairPending(p, op[p].data.parent_id, loc[p].workItemId)
  /\ uuidCounter' = uuidCounter + 1
  /\ LET parentId == op[p].data.parent_id
         edge == LineageEdgeRow(uuidCounter + 1, op[p].user, parentId,
                                loc[p].workItemId)
     IN \E fails \in BOOLEAN :
          IF fails \/ RowsById(parentId) = {}
            THEN Throw(p, "STORE_ERROR")
            ELSE IF <<parentId, loc[p].workItemId>> \in
                      EdgePairs(lineage_edges \cup tx[p].edges)
              THEN Throw(p, "UNIQUE_VIOLATION")
              ELSE /\ tx' = [tx EXCEPT ![p].edges = @ \cup {edge}]
                   /\ locks' = locks \cup {Lock(p, parentId, "share")}
                   /\ pc' = [pc EXCEPT ![p] = "c_edge_pub"]
                   /\ UNCHANGED <<store, result>>
  /\ UNCHANGED <<events, op, loc, clock, opsStarted, pureVars>>

\* createLineageEdge: publishLineageEvent; publish() rethrows a failure.
CreateEdgePublish(p) ==
  /\ pc[p] = "c_edge_pub"
  /\ \E fails \in BOOLEAN :
       IF fails
         THEN /\ Throw(p, "PUBLISH_ERROR")
              /\ UNCHANGED events
         ELSE /\ events' = Append(events,
                   Event("edge_created", "lineage", loc[p].workItemId,
                         op[p].user, {}, {}, op[p].data.parent_id))
              /\ pc' = [pc EXCEPT ![p] = "c_hist"]
              /\ UNCHANGED <<store, tx, result, locks>>
  /\ UNCHANGED <<op, loc, clock, uuidCounter, opsStarted, pureVars>>

\* The row recordStatusChange inserts.
StatusHistoryRow(workItemId, fromStatus, toStatus, userId) ==
  [work_item_id |-> workItemId, from_status |-> fromStatus,
   to_status |-> toStatus, changed_by |-> userId]

\* 5. recordStatusChange(null -> draft) for the row this transaction inserted
CreateHistory(p) ==
  /\ pc[p] = "c_hist"
  /\ \E fails \in BOOLEAN :
       IF fails
         THEN Throw(p, "STORE_ERROR")
         ELSE /\ tx' = [tx EXCEPT ![p].hist = Append(@,
                   StatusHistoryRow(loc[p].workItemId, NullStatus, "draft",
                                    op[p].user.id))]
              /\ pc' = [pc EXCEPT ![p] = "c_publish"]
              /\ UNCHANGED <<store, result, locks>>
  /\ UNCHANGED <<events, op, loc, clock, uuidCounter, opsStarted, pureVars>>

\* 6. publishWorkItemEvent('created'), inside the transaction
CreatePublish(p) ==
  /\ pc[p] = "c_publish"
  /\ \E fails \in BOOLEAN :
       IF fails
         THEN /\ Throw(p, "PUBLISH_ERROR")
              /\ UNCHANGED events
         ELSE /\ events' = Append(events,
                   Event("created", "work_items", loc[p].workItemId, op[p].user,
                         {}, loc[p].returned, op[p].data.parent_id))
              /\ pc' = [pc EXCEPT ![p] = "commit"]
              /\ UNCHANGED <<store, tx, result, locks>>
  /\ UNCHANGED <<op, loc, clock, uuidCounter, opsStarted, pureVars>>

(***************************************************************************)
(* COMMIT, and the handler's answer reaching the caller                     *)
(***************************************************************************)
\* The callback returned loc[p].returned; COMMIT makes the write set visible
\* at once.  A failing COMMIT goes to the catch block.
CommitTx(p) ==
  /\ pc[p] = "commit"
  /\ \E fails \in BOOLEAN :
       IF fails
         THEN Throw(p, "COMMIT_ERROR")
         ELSE /\ Apply(Commit(tx[p]))
              /\ tx' = [tx EXCEPT ![p] = EmptyTx]
              /\ ReleaseLocks(p)
              /\ result' = [result EXCEPT ![p] =
                   [ok |-> TRUE, err |-> "none", value |-> loc[p].returned]]
              /\ pc' = [pc EXCEPT ![p] = "done"]
  /\ UNCHANGED <<events, op, loc, clock, uuidCounter, opsStarted, pureVars>>

Return(p) ==
  /\ pc[p] = "done"
  /\ pc' = [pc EXCEPT ![p] = "idle"]
  /\ op' = [op EXCEPT ![p] = NoOp]
  /\ loc' = [loc EXCEPT ![p] = EmptyLoc]
  /\ result' = [result EXCEPT ![p] = NoResult]
  /\ UNCHANGED <<store, events, locks, tx, clock, uuidCounter, opsStarted,
                 pureVars>>

(***************************************************************************)
(* updateWorkItem                                                           *)
(***************************************************************************)
\* the test that skips the history row of a status that stays as it is
StatusPresent_Changed(data, existing) ==
  data.status # Undefined /\ data.status # existing.status

\* data.status !== undefined: the status joins the SET list and
\* recordStatusChange is called, whatever the status of the row read.
StatusPresent(data, existing) == data.status # Undefined

\* 1. getWorkItemById, 2. the update check.  Both reads go through the pool,
\* outside the transaction: they see committed rows and take no lock.
UpdateRead(p) ==
  /\ pc[p] = "u_read"
  /\ \E r1 \in RemoteOutcomes, r2 \in RemoteOutcomes :
       LET existing == getWorkItemById(op[p].user, op[p].id, r1)
       IN IF existing = {}
            THEN /\ Throw(p, "WORK_ITEM_NOT_FOUND")
                 /\ loc' = [loc EXCEPT ![p].readDenied =
                              ReadDenied(op[p].user, op[p].id, r1)]
            ELSE IF ~canUpdateWorkItem(op[p].user, CHOOSE w \in existing : TRUE, r2)
              THEN /\ Throw(p, "INSUFFICIENT_PERMISSIONS")
                   /\ loc' = [loc EXCEPT ![p].existing = existing,
                                         ![p].authorized = TRUE,
                                         ![p].canUpdate = FALSE]
              ELSE /\ loc' = [loc EXCEPT ![p].existing = existing,
                                         ![p].authorized = TRUE,
                                         ![p].canUpdate = TRUE]
                   /\ pc' = [pc EXCEPT ![p] =
                        IF StatusPresent(op[p].data,
                                         CHOOSE w \in existing : TRUE)
                          THEN "u_hist" ELSE "u_write"]
                   /\ UNCHANGED <<store, tx, result, locks>>
  /\ UNCHANGED <<events, op, clock, uuidCounter, opsStarted, pureVars>>

\* 3. status is present: recordStatusChange(existing.status -> data.status).
\* The foreign key on work_item_id needs the item row and key-share locks it.
UpdateHistory(p) ==
  /\ pc[p] = "u_hist"
  /\ CanLock(p, op[p].id, "share")
  /\ LET existing == CHOOSE w \in loc[p].existing : TRUE
     IN \E fails \in BOOLEAN :
          IF fails \/ RowsById(op[p].id) = {}
            THEN Throw(p, "STORE_ERROR")
            ELSE /\ tx' = [tx EXCEPT ![p].hist = Append(@,
                      StatusHistoryRow(op[p].id, existing.status,
                                       op[p].data.status, op[p].user.id))]
                 /\ locks' = locks \cup {Lock(p, op[p].id, "share")}
                 /\ pc' = [pc EXCEPT ![p] = "u_write"]
                 /\ UNCHANGED <<store, result>>
  /\ UNCHANGED <<events, op, loc, clock, uuidCounter, opsStarted, pureVars>>

\* the test that never finds the update list empty
UpdatesEmpty_Never(data) == FALSE

\* updates.length === 0: no field of the request is present.
UpdatesEmpty(data) ==
  /\ data.title = Undefined
  /\ data.description = Undefined
  /\ data.status = Undefined
  /\ data.priority = Undefined
  /\ data.owner_id = Undefined
  /\ data.due_at = Undefined
  /\ data.metadata = Undefined

\* the stamping rule without the test that the stamp is unset
StampStarted_Always(data, existing) == data.status = "in_progress"

\* started_at joins the SET list
StampStarted(data, existing) ==
  data.status = "in_progress" /\ existing.started_at = NullDate

\* completed_at joins the SET list
StampCompleted(data, existing) ==
  data.status = "completed" /\ existing.completed_at = NullDate

\* the UPDATE that replaces the row: an absent field is set to no value
UpdatedRow_FullReplace(row, data, existing, date, txStart) ==
  [row EXCEPT
     !.title = data.title,
     !.description = data.description,
     !.status = IF data.status # Undefined THEN data.status ELSE @,
     !.started_at = IF StampStarted(data, existing) THEN date ELSE @,
     !.completed_at = IF StampCompleted(data, existing) THEN date ELSE @,
     !.priority = data.priority,
     !.owner_id = data.owner_id,
     !.due_at = data.due_at,
     !.metadata = data.metadata,
     !.updated_at = txStart]

\* The BEFORE UPDATE trigger of work_items: updated_at = NOW(), the time the
\* transaction began.
update_updated_at_column(row, txStart) == [row EXCEPT !.updated_at = txStart]

\* the UPDATE that writes back the row the handler read
UpdatedRow_FromExisting(row, data, existing, date, txStart) ==
  update_updated_at_column(
    [existing EXCEPT
       !.title = IF data.title # Undefined THEN data.title ELSE @,
       !.description =
          IF data.description # Undefined THEN data.description ELSE @,
       !.status = IF data.status # Undefined THEN data.status ELSE @,
       !.started_at = IF StampStarted(data, existing) THEN date ELSE @,
       !.completed_at = IF StampCompleted(data, existing) THEN date ELSE @,
       !.priority = IF data.priority # Undefined THEN data.priority ELSE @,
       !.owner_id = IF data.owner_id # Undefined THEN data.owner_id ELSE @,
       !.due_at = IF data.due_at # Undefined THEN data.due_at ELSE @,
       !.metadata = IF data.metadata # Undefined THEN data.metadata ELSE @,
       !.updated_at = date],
    txStart)

\* UPDATE work_items SET ... applied to the row as it is when the statement
\* runs; existing is the row the handler read earlier.
UpdatedRow(row, data, existing, date, txStart) ==
  update_updated_at_column(
    [row EXCEPT
       !.title = IF data.title # Undefined THEN data.title ELSE @,
       !.description =
          IF data.description # Undefined THEN data.description ELSE @,
       !.status = IF data.status # Undefined THEN data.status ELSE @,
       !.started_at = IF StampStarted(data, existing) THEN date ELSE @,
       !.completed_at = IF StampCompleted(data, existing) THEN date ELSE @,
       !.priority = IF data.priority # Undefined THEN data.priority ELSE @,
       !.owner_id = IF data.owner_id # Undefined THEN data.owner_id ELSE @,
       !.due_at = IF data.due_at # Undefined THEN data.due_at ELSE @,
       !.metadata = IF data.metadata # Undefined THEN data.metadata ELSE @,
       !.updated_at = date],
    txStart)

\* 3. the UPDATE, or the early return when no field is present.  UPDATE waits
\* for a transaction that holds the row for update or delete, then works on the
\* row that transaction left; it changes no row when the row is gone.
UpdateWrite(p) ==
  /\ pc[p] = "u_write"
  /\ IF UpdatesEmpty(op[p].data)
       THEN /\ loc' = [loc EXCEPT ![p].returned = loc[p].existing]
            /\ pc' = [pc EXCEPT ![p] = "commit"]
            /\ UNCHANGED <<store, tx, result, locks, clock>>
       ELSE /\ CanLock(p, op[p].id, "upd")
            /\ clock' = clock + 1
            /\ LET rows == {w \in RowsById(op[p].id) :
                              w.tenant_id = op[p].user.tenant_id}
                   existing == CHOOSE w \in loc[p].existing : TRUE
                   updated == {UpdatedRow(w, op[p].data, existing, clock,
                                          loc[p].txStart) : w \in rows}
               IN /\ loc' = [loc EXCEPT ![p].returned = updated, ![p].now = clock]
                  /\ \E fails \in BOOLEAN :
                       IF fails
                         THEN Throw(p, "STORE_ERROR")
                         ELSE /\ tx' = [tx EXCEPT ![p].upd = updated]
                              /\ locks' = locks \cup
                                   {Lock(p, w.id, "upd") : w \in rows}
                              /\ pc' = [pc EXCEPT ![p] = "u_publish"]
                              /\ UNCHANGED <<store, result>>
  /\ UNCHANGED <<events, op, uuidCounter, opsStarted, pureVars>>

\* 4. publishWorkItemEvent('updated'), inside the transaction
UpdatePublish(p) ==
  /\ pc[p] = "u_publish"
  /\ \E fails \in BOOLEAN :
       IF fails
         THEN /\ Throw(p, "PUBLISH_ERROR")
              /\ UNCHANGED events
         ELSE /\ events' = Append(events,
                   Event("updated", "work_items", op[p].id, op[p].user,
                         loc[p].existing, loc[p].returned, NoId))
              /\ pc' = [pc EXCEPT ![p] = "commit"]
              /\ UNCHANGED <<store, tx, result, locks>>
  /\ UNCHANGED <<op, loc, clock, uuidCounter, opsStarted, pureVars>>

(***************************************************************************)
(* deleteWorkItem                                                           *)
(***************************************************************************)
\* 1. getWorkItemById, 2. the delete check
DeleteRead(p) ==
  /\ pc[p] = "d_read"
  /\ \E r1 \in RemoteOutcomes, r2 \in RemoteOutcomes :
       LET existing == getWorkItemById(op[p].user, op[p].id, r1)
       IN IF existing = {}
            THEN /\ Throw(p, "WORK_ITEM_NOT_FOUND")
                 /\ loc' = [loc EXCEPT ![p].readDenied =
                              ReadDenied(op[p].user, op[p].id, r1)]
            ELSE IF ~canDeleteWorkItem(op[p].user, CHOOSE w \in existing : TRUE, r2)
              THEN /\ Throw(p, "INSUFFICIENT_PERMISSIONS")
                   /\ loc' = [loc EXCEPT ![p].existing = existing,
                                         ![p].authorized = TRUE,
                                         ![p].canDelete = FALSE]
              ELSE /\ loc' = [loc EXCEPT ![p].existing = existing,
                                         ![p].authorized = TRUE,
                                         ![p].canDelete = TRUE]
                   /\ pc' = [pc EXCEPT ![p] = "d_count"]
                   /\ UNCHANGED <<store, tx, result, locks>>
  /\ UNCHANGED <<events, op, clock, uuidCounter, opsStarted, pureVars>>

\* the count taken over the edges the item is the child of
childCount_AsChild(tenantId, workItemId) ==
  Cardinality({e \in lineage_edges :
                 e.tenant_id = tenantId /\ e.child_id = workItemId})

\* SELECT COUNT(*) of the edges the item is the parent of, as committed
childCount(tenantId, workItemId) ==
  Cardinality({e \in lineage_edges :
                 e.tenant_id = tenantId /\ e.parent_id = workItemId})

\* 3. the check for child work items
DeleteCount(p) ==
  /\ pc[p] = "d_count"
  /\ IF childCount(op[p].user.tenant_id, op[p].id) > 0
       THEN Throw(p, "CANNOT_DELETE_PARENT")
       ELSE /\ pc' = [pc EXCEPT ![p] = "d_delete"]
            /\ UNCHANGED <<store, tx, result, locks>>
  /\ UNCHANGED <<events, op, loc, clock, uuidCounter, opsStarted, pureVars>>

\* 4. DELETE FROM work_items: waits for every transaction that holds a lock
\* on the row, then removes the row if it is still there.
DeleteRow(p) ==
  /\ pc[p] = "d_delete"
  /\ CanLock(p, op[p].id, "del")
  /\ LET rows == {w \in RowsById(op[p].id) : w.tenant_id = op[p].user.tenant_id}
     IN \E fails \in BOOLEAN :
          IF fails
            THEN Throw(p, "STORE_ERROR")
            ELSE /\ tx' = [tx EXCEPT ![p].del = Ids(rows)]
                 /\ locks' = locks \cup {Lock(p, w.id, "del") : w \in rows}
                 /\ pc' = [pc EXCEPT ![p] = "d_publish"]
                 /\ UNCHANGED <<store, result>>
  /\ UNCHANGED <<events, op, loc, clock, uuidCounter, opsStarted, pureVars>>

\* 5. publishWorkItemEvent('deleted'), inside the transaction
DeletePublish(p) ==
  /\ pc[p] = "d_publish"
  /\ \E fails \in BOOLEAN :
       IF fails
         THEN /\ Throw(p, "PUBLISH_ERROR")
              /\ UNCHANGED events
         ELSE /\ events' = Append(events,
                   Event("deleted", "work_items", op[p].id, op[p].user,
                         loc[p].existing, {}, NoId))
              /\ pc' = [pc EXCEPT ![p] = "commit"]
              /\ UNCHANGED <<store, tx, result, locks>>
  /\ UNCHANGED <<op, loc, clock, uuidCounter, opsStarted, pureVars>>

(***************************************************************************)
(* The service                                                              *)
(***************************************************************************)
Next ==
  \E p \in Procs :
    \/ StartCreate(p)
    \/ StartUpdate(p)
    \/ StartDelete(p)
    \/ CreateCheck(p)
    \/ CreateParent(p)
    \/ CreateInsert(p)
    \/ CreateEdge(p)
    \/ CreateEdgePublish(p)
    \/ CreateHistory(p)
    \/ CreatePublish(p)
    \/ UpdateRead(p)
    \/ UpdateHistory(p)
    \/ UpdateWrite(p)
    \/ UpdatePublish(p)
    \/ DeleteRead(p)
    \/ DeleteCount(p)
    \/ DeleteRow(p)
    \/ DeletePublish(p)
    \/ CommitTx(p)
    \/ Return(p)

Spec == Init /\ [][Next]_vars

(***************************************************************************)
(* Status updates of one seeded objective: the first request is u1 creating *)
(* a parentless objective, the later ones set a status on known items.      *)
(***************************************************************************)
StartSeed(p) ==
  /\ opsStarted = 0
  /\ \E u \in {v \in Users : v.id = "u1"},
        d \in CreateRequests({"objective"}, {NoId}) :
       Begin(p, [kind |-> "create", user |-> u, id |-> NoId, data |-> d],
             "c_check")

StartStatusUpdate(p) ==
  /\ opsStarted > 0
  /\ opsStarted < MaxOps + 1
  /\ \E u \in {v \in Users : v.tenant_id = "tA"}, id \in Ids(work_items),
        d \in {StartRequest, CompleteRequest} :
       Begin(p, [kind |-> "update", user |-> u, id |-> id, data |-> d], "u_read")

\* Updates that leave the status alone.
StartFieldUpdate(p) ==
  /\ opsStarted > 0
  /\ opsStarted < MaxOps + 1
  /\ \E u \in {v \in Users : v.id = "u1"}, id \in Ids(work_items),
        d \in {ReassignRequest, RetitleRequest} :
       Begin(p, [kind |-> "update", user |-> u, id |-> id, data |-> d], "u_read")

NextUpdate ==
  \E p \in Procs :
    \/ StartSeed(p)
    \/ CreateCheck(p)
    \/ CreateInsert(p)
    \/ CreateHistory(p)
    \/ CreatePublish(p)
    \/ StartStatusUpdate(p)
    \/ StartFieldUpdate(p)
    \/ UpdateRead(p)
    \/ UpdateHistory(p)
    \/ UpdateWrite(p)
    \/ UpdatePublish(p)
    \/ CommitTx(p)
    \/ Return(p)

SpecUpdate == Init /\ [][NextUpdate]_vars

(***************************************************************************)
(* A tree under one seeded objective: the first request is u1 creating a    *)
(* parentless objective; the later ones create strategies under known       *)
(* items, delete known items and look items up.                             *)
(***************************************************************************)
TreeUser == CHOOSE u \in Users : u.id = "u1"

StartTreeCreate(p) ==
  /\ opsStarted > 0
  /\ opsStarted < MaxOps + 1
  /\ \E d \in CreateRequests({"strategy"}, Ids(work_items)) :
       Begin(p, [kind |-> "create", user |-> TreeUser, id |-> NoId, data |-> d],
             "c_check")

StartTreeDelete(p) ==
  /\ opsStarted > 0
  /\ opsStarted < MaxOps + 1
  /\ \E id \in Ids(work_items) :
       Begin(p, [kind |-> "delete", user |-> TreeUser, id |-> id,
                 data |-> EmptyRequest], "d_read")

\* getWorkItemById called for itself (GET /work-items/:id); it opens no
\* transaction.
StartGet(p) ==
  /\ opsStarted > 0
  /\ opsStarted < MaxOps + 1
  /\ \E u \in Users, id \in KnownIds :
       Begin(p, [kind |-> "get", user |-> u, id |-> id, data |-> EmptyRequest],
             "g_read")

GetRead(p) ==
  /\ pc[p] = "g_read"
  /\ \E remote \in RemoteOutcomes :
       /\ loc' = [loc EXCEPT ![p].readDenied =
                    ReadDenied(op[p].user, op[p].id, remote),
                            ![p].authorized =
                    getWorkItemById(op[p].user, op[p].id, remote) # {}]
       /\ result' = [result EXCEPT ![p] =
            [ok |-> TRUE, err |-> "none",
             value |-> getWorkItemById(op[p].user, op[p].id, remote)]]
  /\ pc' = [pc EXCEPT ![p] = "done"]
  /\ UNCHANGED <<store, events, locks, op, tx, clock, uuidCounter, opsStarted,
                 pureVars>>

\* getLineageForWorkItem: the edges of the principal's tenant that have the
\* item as parent or as child, each joined to its parent row and its child
\* row for their titles.  The rows come in created_at order; they are kept
\* here as a set.
getLineageForWorkItem(user, workItemId) ==
  { [edge |-> le, parent_title |-> p.title, child_title |-> c.title] :
      <<le, p, c>> \in
        { t \in lineage_edges \X work_items \X work_items :
            /\ t[1].parent_id = t[2].id
            /\ t[1].child_id = t[3].id
            /\ t[1].tenant_id = user.tenant_id
            /\ (t[1].parent_id = workItemId \/ t[1].child_id = workItemId) } }

\* getLineageForWorkItem (GET /work-items/:id/lineage): one query through
\* the pool; the handler calls nothing else.
StartLineage(p) ==
  /\ opsStarted > 0
  /\ opsStarted < MaxOps + 1
  /\ \E u \in Users, id \in KnownIds :
       Begin(p, [kind |-> "lineage", user |-> u, id |-> id,
                 data |-> EmptyRequest], "l_read")

LineageRead(p) ==
  /\ pc[p] = "l_read"
  /\ result' = [result EXCEPT ![p] =
       [ok |-> TRUE, err |-> "none",
        value |-> getLineageForWorkItem(op[p].user, op[p].id)]]
  /\ pc' = [pc EXCEPT ![p] = "done"]
  /\ UNCHANGED <<store, events, locks, op, loc, tx, clock, uuidCounter,
                 opsStarted, pureVars>>

NextTree ==
  \E p \in Procs :
    \/ StartSeed(p)
    \/ StartTreeCreate(p)
    \/ CreateCheck(p)
    \/ CreateParent(p)
    \/ CreateInsert(p)
    \/ CreateEdge(p)
    \/ CreateEdgePublish(p)
    \/ CreateHistory(p)
    \/ CreatePublish(p)
    \/ StartTreeDelete(p)
    \/ DeleteRead(p)
    \/ DeleteCount(p)
    \/ DeleteRow(p)
    \/ DeletePublish(p)
    \/ StartGet(p)
    \/ GetRead(p)
    \/ StartLineage(p)
    \/ LineageRead(p)
    \/ CommitTx(p)
    \/ Return(p)

SpecTree == Init /\ [][NextTree]_vars

(***************************************************************************)
(* createLineageEdge on its own: after u1 has created an objective and a    *)
(* strategy under it, transactions insert edges between known items.        *)
(* createWorkItem, its only caller in the service, passes a child id fresh  *)
(* from uuidv4(); here the (parent, child) pair is the caller's choice.     *)
(***************************************************************************)
StartEdgeSeed(p) ==
  /\ opsStarted = 1
  /\ \E d \in CreateRequests({"strategy"}, Ids(work_items)) :
       Begin(p, [kind |-> "create", user |-> TreeUser, id |-> NoId, data |-> d],
             "c_check")

StartEdge(p) ==
  /\ opsStarted > 1
  /\ opsStarted < MaxOps + 2
  /\ \E parentId \in Ids(work_items), childId \in Ids(work_items) :
       \E d \in CreateRequests({"strategy"}, {parentId}) :
         Begin(p, [kind |-> "edge", user |-> TreeUser, id |-> childId,
                   data |-> d], "e_insert")

\* INSERT INTO lineage_edges of the given pair.  Both foreign keys need their
\* row and key-share lock it; the insert waits for an undecided insert of the
\* same pair, and fails on UNIQUE(parent_id, child_id) when the pair is taken.
EdgeInsert(p) ==
  /\ pc[p] = "e_insert"
  /\ CanLock(p, op[p].data.parent_id, "share")
  /\ CanLock(p, op[p].id, "share")
  /\ ~PairPending(p, op[p].data.parent_id, op[p].id)
  /\ uuidCounter' = uuidCounter + 1
  /\ LET parentId == op[p].data.parent_id
         childId == op[p].id
         edge == LineageEdgeRow(uuidCounter + 1, op[p].user, parentId, childId)
     IN \E fails \in BOOLEAN :
          IF fails \/ RowsById(parentId) = {} \/ RowsById(childId) = {}
            THEN Throw(p, "STORE_ERROR")
            ELSE IF <<parentId, childId>> \in
                      EdgePairs(lineage_edges \cup tx[p].edges)
              THEN Throw(p, "UNIQUE_VIOLATION")
              ELSE /\ tx' = [tx EXCEPT ![p].edges = @ \cup {edge}]
                   /\ locks' = locks \cup {Lock(p, parentId, "share"),
                                           Lock(p, childId, "share")}
                   /\ pc' = [pc EXCEPT ![p] = "e_publish"]
                   /\ UNCHANGED <<store, result>>
  /\ UNCHANGED <<events, op, loc, clock, opsStarted, pureVars>>

\* publishLineageEvent('edge_created')
EdgePublish(p) ==
  /\ pc[p] = "e_publish"
  /\ \E fails \in BOOLEAN :
       IF fails
         THEN /\ Throw(p, "PUBLISH_ERROR")
              /\ UNCHANGED events
         ELSE /\ events' = Append(events,
                   Event("edge_created", "lineage", op[p].id, op[p].user,
                         {}, {}, op[p].data.parent_id))
              /\ pc' = [pc EXCEPT ![p] = "commit"]
              /\ UNCHANGED <<store, tx, result, locks>>
  /\ UNCHANGED <<op, loc, clock, uuidCounter, opsStarted, pureVars>>

\* WorkItemController.handleError: the error kind the caller is given, chosen
\* by what the error message includes.
handleError(err) ==
  CASE err = "LINEAGE_REQUIRED" ->
         [statusCode |-> 409, errorCode |-> "LINEAGE_REQUIRED"]
    [] err \in {"PARENT_NOT_FOUND", "WORK_ITEM_NOT_FOUND"} ->
         [statusCode |-> 404, errorCode |-> "NOT_FOUND"]
    [] err = "INSUFFICIENT_PERMISSIONS" ->
         [statusCode |-> 403, errorCode |-> "INSUFFICIENT_PERMISSIONS"]
    [] err = "INVALID_HIERARCHY" ->
         [statusCode |-> 400, errorCode |-> "INVALID_REQUEST"]
    [] OTHER ->
         [statusCode |-> 500, errorCode |-> "INTERNAL_ERROR"]

NextEdge ==
  \E p \in Procs :
    \/ StartSeed(p)
    \/ StartEdgeSeed(p)
    \/ CreateCheck(p)
    \/ CreateParent(p)
    \/ CreateInsert(p)
    \/ CreateEdge(p)
    \/ CreateEdgePublish(p)
    \/ CreateHistory(p)
    \/ CreatePublish(p)
    \/ StartEdge(p)
    \/ EdgeInsert(p)
    \/ EdgePublish(p)
    \/ CommitTx(p)
    \/ Return(p)

SpecEdge == Init /\ [][NextEdge]_vars

(***************************************************************************)
(* getWorkItemsWithLineage: the recursive query, DISTINCT ON, LIMIT/OFFSET  *)
(* and the read filter, as a function of the committed tables               *)
(***************************************************************************)
MaxDepth == 10       \* lt.depth < 10
DefaultLimit == 50   \* params.limit || 50

\* the base case without the condition on the tenant
BaseRows_AllTenants(user, params) ==
  LET Joined(wi) ==
        LET le == {e \in lineage_edges :
                     e.child_id = wi.id /\ e.tenant_id = wi.tenant_id}
        IN IF le = {} THEN {NoId} ELSE {e.parent_id : e \in le}
  IN { r \in UNION { { [item |-> wi, parent_id |-> par, depth |-> 0] :
                          par \in Joined(wi) } : wi \in work_items } :
         /\ params.type # Undefined => r.item.type = params.type
         /\ params.parent_id # NoId => r.parent_id = params.parent_id }

\* Base case: work items LEFT JOINed with the edges they are the child of,
\* under the conditions built from the parameters.  A row of lineage_tree is
\* the item, the parent_id of the joined edge (null without one) and depth.
BaseRows(user, params) ==
  LET Joined(wi) ==
        LET le == {e \in lineage_edges :
                     e.child_id = wi.id /\ e.tenant_id = wi.tenant_id}
        IN IF le = {} THEN {NoId} ELSE {e.parent_id : e \in le}
  IN { r \in UNION { { [item |-> wi, parent_id |-> par, depth |-> 0] :
                          par \in Joined(wi) } : wi \in work_items } :
         /\ r.item.tenant_id = user.tenant_id
         /\ params.type # Undefined => r.item.type = params.type
         /\ params.parent_id # NoId => r.parent_id = params.parent_id }

\* the recursive case that also descends from the rows of depth 10
RecursiveRows_NoCap(working) ==
  { [item |-> p, parent_id |-> ple.parent_id, depth |-> lt.depth + 1] :
      <<p, ple, lt>> \in
        { t \in work_items \X lineage_edges \X working :
            /\ t[1].id = t[2].child_id
            /\ t[2].parent_id = t[3].item.id
            /\ t[2].tenant_id = t[1].tenant_id } }

\* Recursive case: the items joined, as child, to an edge whose parent is a
\* row of the working table of depth below the cap.
RecursiveRows(working) ==
  { [item |-> p, parent_id |-> ple.parent_id, depth |-> lt.depth + 1] :
      <<p, ple, lt>> \in
        { t \in work_items \X lineage_edges \X working :
            /\ t[1].id = t[2].child_id
            /\ t[2].parent_id = t[3].item.id
            /\ t[2].tenant_id = t[1].tenant_id
            /\ t[3].depth < MaxDepth } }

\* WITH RECURSIVE lineage_tree: the base rows and, until the recursive case
\* yields no row, the rows it yields from the rows of the step before.
RECURSIVE Iterate(_)
Iterate(working) ==
  IF working = {} THEN {} ELSE working \cup Iterate(RecursiveRows(working))

lineage_tree(user, params) == Iterate(BaseRows(user, params))

\* SELECT DISTINCT ON (id) ... ORDER BY id, depth: of the rows of one id, the
\* first in depth order.
DistinctOnId(rows) ==
  { CHOOSE r \in rows :
      /\ r.item.id = id
      /\ \A q \in rows : q.item.id = id => r.depth <= q.depth :
    id \in {r.item.id : r \in rows} }

\* ORDER BY id, depth
RECURSIVE OrderByIdDepth(_)
OrderByIdDepth(rows) ==
  IF rows = {} THEN <<>>
  ELSE LET first == CHOOSE r \in rows :
                      \A q \in rows :
                        \/ r.item.id < q.item.id
                        \/ r.item.id = q.item.id /\ r.depth <= q.depth
       IN <<first>> \o OrderByIdDepth(rows \ {first})

\* LIMIT limit OFFSET offset
LimitOffset(rows, limit, offset) ==
  SubSeq(rows, offset + 1,
         IF offset + limit < Len(rows) THEN offset + limit ELSE Len(rows))

\* remote[id] is what the policy service does with the read check of item id.
\* params.limit is a number: the controller passes parseInt of the query
\* string, or 50 without one, and `params.limit || 50` takes 0 for none.
getWorkItemsWithLineage(user, params, remote) ==
  LET limit == IF params.limit = 0 THEN DefaultLimit ELSE params.limit
      rows == LimitOffset(
                OrderByIdDepth(DistinctOnId(lineage_tree(user, params))),
                limit, params.offset)
      CanRead(r) == canReadWorkItem(user, r.item, remote[r.item.id])
  IN SelectSeq(rows, CanRead)

\* The tables holding one chain of n items, item i the parent of item i + 1.
\* createWorkItem builds chains of up to five items (the five types); longer
\* ones are rows written to the tables directly, which the schema admits.
ChainType(i) ==
  CASE i = 1 -> "objective"
    [] i = 2 -> "strategy"
    [] i = 3 -> "initiative"
    [] i = 4 -> "task"
    [] OTHER -> "subtask"

ChainItems(n) ==
  { NewWorkItem(i, TreeUser,
                CHOOSE d \in CreateRequests({ChainType(i)}, {NoId}) : TRUE, 1) :
      i \in 1..n }

ChainEdges(n) ==
  { LineageEdgeRow(n + i, TreeUser, i, i + 1) : i \in 1..(n - 1) }

QueryParams(n) ==
  { [type |-> t, parent_id |-> par, limit |-> l, offset |-> o] :
      t \in {Undefined, "subtask"}, par \in {NoId} \cup 1..n,
      l \in {0, 3}, o \in {0, 1} }

InitQuery ==
  /\ \E n \in 1..MaxChain :
       /\ work_items = ChainItems(n)
       /\ lineage_edges = ChainEdges(n)
       /\ call \in { [fn |-> "getWorkItemsWithLineage", user |-> u,
                      params |-> q] :
                       u \in {v \in Users : v.id \in {"u1", "u3"}},
                       q \in QueryParams(n) }
  /\ status_history = <<>>
  /\ events = <<>>
  /\ locks = {}
  /\ pc = [p \in Procs |-> "idle"]
  /\ op = [p \in Procs |-> NoOp]
  /\ loc = [p \in Procs |-> EmptyLoc]
  /\ tx = [p \in Procs |-> EmptyTx]
  /\ result = [p \in Procs |-> NoResult]
  /\ clock = 2
  /\ uuidCounter = 0
  /\ opsStarted = 0
  /\ ret = [fn |-> "none"]

\* The policy service gives one answer to every read check of the call but
\* that of one item, which it denies.
ApplyQuery ==
  /\ call.fn = "getWorkItemsWithLineage"
  /\ ret.fn = "none"
  /\ \E r \in RemoteOutcomes, denied \in Ids(work_items) \cup {NoId} :
       LET remote == [id \in Ids(work_items) |->
                        IF id = denied THEN "deny" ELSE r]
       IN ret' = [fn |-> call.fn,
                  value |-> getWorkItemsWithLineage(call.user, call.params,
                                                    remote),
                  remote |-> remote]
  /\ UNCHANGED <<store, events, locks, procVars, clock, uuidCounter,
                 opsStarted, call>>

NextQuery == ApplyQuery

SpecQuery == InitQuery /\ [][NextQuery]_vars

(***************************************************************************)
(* The pure functions, applied to every argument of a bounded domain        *)
(***************************************************************************)
PureUsers ==
  { [id |-> "u1", tenant_id |-> "tA", roles |-> R] : R \in SUBSET Roles }

\* What the remote call of evaluatePolicy can come to: a decision, or one of
\* the failures the catch block takes (no answer, no answer within the 5 s
\* timeout, an answer with success = false).
PureRemote == {"allow", "deny", "transport_error", "timeout", "unsuccessful"}

PureResources ==
  { [type |-> "task", tenant_id |-> t, owner_id |-> o] :
      t \in {"tA", "tB"}, o \in {"u1", "u2"} }

PureCalls ==
  { [fn |-> "validateParentChildRelationship", parentType |-> a, childType |-> b] :
      a \in WorkItemType, b \in WorkItemType }
  \cup
  { [fn |-> "evaluatePolicy", user |-> u, action |-> a, resource |-> res,
     remote |-> r] :
      u \in PureUsers, a \in {"create", "update", "delete", "read"},
      res \in PureResources, r \in PureRemote }
  \cup
  { [fn |-> "canCreateWorkItem", user |-> u, workItemType |-> t,
     parentId |-> par, remote |-> r] :
      u \in PureUsers, t \in WorkItemType, par \in {NoId, GhostId},
      r \in RemoteOutcomes }

InitPure ==
  /\ work_items = {}
  /\ lineage_edges = {}
  /\ status_history = <<>>
  /\ events = <<>>
  /\ locks = {}
  /\ pc = [p \in Procs |-> "idle"]
  /\ op = [p \in Procs |-> NoOp]
  /\ loc = [p \in Procs |-> EmptyLoc]
  /\ tx = [p \in Procs |-> EmptyTx]
  /\ result = [p \in Procs |-> NoResult]
  /\ clock = 1
  /\ uuidCounter = 0
  /\ opsStarted = 0
  /\ call \in PureCalls
  /\ ret = [fn |-> "none"]

ApplyValidate ==
  /\ call.fn = "validateParentChildRelationship"
  /\ ret.fn = "none"
  /\ ret' = [fn |-> call.fn,
             value |-> validateParentChildRelationship(call.parentType,
                                                       call.childType)]
  /\ UNCHANGED <<store, events, locks, procVars, clock, uuidCounter,
                 opsStarted, call>>

ApplyCanCreate ==
  /\ call.fn = "canCreateWorkItem"
  /\ ret.fn = "none"
  /\ ret' = [fn |-> call.fn,
             value |-> canCreateWorkItem(call.user, call.workItemType,
                                         call.parentId, call.remote)]
  /\ UNCHANGED <<store, events, locks, procVars, clock, uuidCounter,
                 opsStarted, call>>

\* The call is given to the source build and to the compiled build.
ApplyEvaluatePolicy ==
  /\ call.fn = "evaluatePolicy"
  /\ ret.fn = "none"
  /\ ret' = [fn |-> call.fn,
             value |-> evaluatePolicy(call.user, call.action, call.resource,
                                      call.remote),
             dist |-> evaluatePolicy_dist(call.user, call.action,
                                          call.resource, call.remote)]
  /\ UNCHANGED <<store, events, locks, procVars, clock, uuidCounter,
                 opsStarted, call>>

NextPure == ApplyValidate \/ ApplyCanCreate \/ ApplyEvaluatePolicy

SpecPure == InitPure /\ [][NextPure]_vars

(***************************************************************************)
(* createWorkItem of parentless objectives by a principal of each tenant,    *)
(* with and without an owner_id, and with a request body that carries a     *)
(* status (the controller hands req.body to the service as it is).          *)
(***************************************************************************)
OwnedCreateRequests ==
  { [type |-> "objective", title |-> "t1", description |-> Undefined,
     priority |-> Undefined, owner_id |-> o, due_at |-> Undefined,
     parent_id |-> NoId, metadata |-> Undefined, status |-> st] :
      o \in {Undefined, "u2"}, st \in {Undefined, "completed"} }

StartOwnedCreate(p) ==
  /\ opsStarted < MaxOps
  /\ \E u \in {v \in Users : v.id \in {"u1", "u3"}},
        d \in OwnedCreateRequests :
       Begin(p, [kind |-> "create", user |-> u, id |-> NoId, data |-> d],
             "c_check")

NextCreate ==
  \E p \in Procs :
    \/ StartOwnedCreate(p)
    \/ CreateCheck(p)
    \/ CreateInsert(p)
    \/ CreateHistory(p)
    \/ CreatePublish(p)
    \/ CommitTx(p)
    \/ Return(p)

SpecCreate == Init /\ [][NextCreate]_vars

(***************************************************************************)
(* Updates and deletes racing on one seeded objective: the first request is *)
(* u1 creating a parentless objective owned by u1 or by u2; the later ones  *)
(* are updates of it by u1 and u2 that leave the status alone, and deletes  *)
(* of it by u1.                                                             *)
(***************************************************************************)
TakeOverRequest == [EmptyRequest EXCEPT !.owner_id = "u1"]

StartRaceSeed(p) ==
  /\ opsStarted = 0
  /\ \E d \in {r \in OwnedCreateRequests : r.status = Undefined} :
       Begin(p, [kind |-> "create", user |-> TreeUser, id |-> NoId, data |-> d],
             "c_check")

StartRaceUpdate(p) ==
  /\ opsStarted > 0
  /\ opsStarted < MaxOps + 1
  /\ \E u \in {v \in Users : v.tenant_id = "tA"}, id \in Ids(work_items),
        d \in {RetitleRequest, TakeOverRequest} :
       Begin(p, [kind |-> "update", user |-> u, id |-> id, data |-> d], "u_read")

NextRace ==
  \E p \in Procs :
    \/ StartRaceSeed(p)
    \/ CreateCheck(p)
    \/ CreateInsert(p)
    \/ CreateHistory(p)
    \/ CreatePublish(p)
    \/ StartRaceUpdate(p)
    \/ UpdateRead(p)
    \/ UpdateWrite(p)
    \/ UpdatePublish(p)
    \/ StartTreeDelete(p)
    \/ DeleteRead(p)
    \/ DeleteCount(p)
    \/ DeleteRow(p)
    \/ DeletePublish(p)
    \/ CommitTx(p)
    \/ Return(p)

SpecRace == Init /\ [][NextRace]_vars

(***************************************************************************)
(* The connection pool.  transaction() checks a client out of the pool for  *)
(* the whole callback; getWorkItemById, called inside the callback, runs    *)
(* its query through this.db.query, i.e. pool.query, which checks out a     *)
(* further client for the query and waits connectionTimeoutMillis for one.  *)
(* The pool has 20 clients; here all but one for each request followed are  *)
(* checked out by other requests that are inside their transactions.        *)
(***************************************************************************)
PoolMax == 20        \* max: 20

ClientsHeldElsewhere == PoolMax - Cardinality(Procs)

\* p is between pool.connect() and client.release().
InTransaction(p) ==
  /\ pc[p] \notin {"idle", "done"}
  /\ op[p].kind \in {"create", "update", "delete"}

ClientsCheckedOut ==
  ClientsHeldElsewhere + Cardinality({p \in Procs : InTransaction(p)})

ClientFree == ClientsCheckedOut < PoolMax

\* The await p is suspended at is the pool.query of getWorkItemById.
AtPoolQuery(p) == pc[p] \in {"c_parent", "u_read", "d_read"}

\* pool.query got a client: the read runs and the client goes back.
PoolCreateParent(p) == ClientFree /\ CreateParent(p)
PoolUpdateRead(p) == ClientFree /\ UpdateRead(p)
PoolDeleteRead(p) == ClientFree /\ DeleteRead(p)

\* pool.query got no client within connectionTimeoutMillis: it rejects, the
\* callback throws, transaction() rolls back and releases p's client.
ConnectionTimeout(p) ==
  /\ AtPoolQuery(p)
  /\ ~ClientFree
  /\ Throw(p, "CONNECTION_TIMEOUT")
  /\ UNCHANGED <<events, op, loc, clock, uuidCounter, opsStarted, pureVars>>

StartPoolUpdate(p) ==
  /\ opsStarted > 0
  /\ opsStarted < MaxOps + 1
  /\ \E id \in Ids(work_items) :
       Begin(p, [kind |-> "update", user |-> TreeUser, id |-> id,
                 data |-> StartRequest], "u_read")

NextPool ==
  \E p \in Procs :
    \/ StartSeed(p)
    \/ StartTreeCreate(p)
    \/ StartPoolUpdate(p)
    \/ StartTreeDelete(p)
    \/ CreateCheck(p)
    \/ PoolCreateParent(p)
    \/ CreateInsert(p)
    \/ CreateEdge(p)
    \/ CreateEdgePublish(p)
    \/ CreateHistory(p)
    \/ CreatePublish(p)
    \/ PoolUpdateRead(p)
    \/ UpdateHistory(p)
    \/ UpdateWrite(p)
    \/ UpdatePublish(p)
    \/ PoolDeleteRead(p)
    \/ DeleteCount(p)
    \/ DeleteRow(p)
    \/ DeletePublish(p)
    \/ ConnectionTimeout(p)
    \/ CommitTx(p)
    \/ Return(p)

SpecPool == Init /\ [][NextPool]_vars

(***************************************************************************)
(* Properties                                                               *)
(***************************************************************************)
\* The request p takes a step.
Acting(p) == pc'[p] # pc[p]

\* The operation the acting request p is serving.
OpOf(p) == IF pc[p] = "idle" THEN op'[p] ELSE op[p]

\* p's COMMIT succeeds in this step.
CommitOK(p) == pc[p] = "commit" /\ pc'[p] = "done" /\ result'[p].ok

HistoryOf(history, id) ==
  LET Mine(r) == r.work_item_id = id
  IN SelectSeq(history, Mine)

HasInitialRow(history, id) ==
  \E i \in DOMAIN history :
    /\ history[i].work_item_id = id
    /\ history[i].from_status = NullStatus
    /\ history[i].to_status = "draft"

\* The hierarchy table of the specification.
HierarchyTable ==
  { <<"objective", "strategy">>, <<"strategy", "initiative">>,
    <<"initiative", "task">>, <<"task", "subtask">> }

\* C1, the committed store: every work item has its initial history row, and
\* every lineage edge and history row belongs to an existing item.
C1_StoreConsistent ==
  /\ \A w \in work_items : HasInitialRow(status_history, w.id)
  /\ \A e \in lineage_edges :
       e.child_id \in Ids(work_items) /\ e.parent_id \in Ids(work_items)
  /\ \A i \in DOMAIN status_history :
       status_history[i].work_item_id \in Ids(work_items)

\* C1, one step: the committed tables change only in a COMMIT that succeeds
\* (so a request that fails, at whatever step, leaves them as they were), and
\* that COMMIT carries every write of the operation together.
C1_Step ==
  \A p \in Procs :
    /\ (Acting(p) /\ ~CommitOK(p)) => UNCHANGED store
    /\ (CommitOK(p) /\ op[p].kind = "create") =>
         /\ loc[p].workItemId \in Ids(work_items')
         /\ HasInitialRow(status_history', loc[p].workItemId)
         /\ op[p].data.parent_id # NoId =>
              \E e \in lineage_edges' :
                /\ e.child_id = loc[p].workItemId
                /\ e.parent_id = op[p].data.parent_id
    /\ (CommitOK(p) /\ op[p].kind = "update" /\ op[p].data.status # Undefined) =>
         /\ \E w \in work_items' :
              w.id = op[p].id /\ w.status = op[p].data.status
         /\ Len(status_history') = Len(status_history) + 1
         /\ status_history'[Len(status_history')].work_item_id = op[p].id
         /\ status_history'[Len(status_history')].to_status = op[p].data.status
    /\ (CommitOK(p) /\ op[p].kind = "delete") =>
         /\ op[p].id \notin Ids(work_items')
         /\ HistoryOf(status_history', op[p].id) = <<>>
         /\ \A e \in lineage_edges' :
              e.child_id # op[p].id /\ e.parent_id # op[p].id

\* C1: createWorkItem, updateWorkItem and deleteWorkItem are all-or-nothing:
\* whatever step fails, the committed store holds every write of the operation
\* or none; no committed state has a work item without its initial history row
\* or a lineage edge without its child row.
C1_AllOrNothing == []C1_StoreConsistent /\ [][C1_Step]_vars

\* C1 witness: a create under a parent was rolled back at COMMIT, after the
\* item, the edge and the history row had been written in its transaction.
C1_Witness ==
  \E p \in Procs :
    /\ pc[p] = "done"
    /\ op[p].kind = "create"
    /\ op[p].data.parent_id # NoId
    /\ result[p].err = "COMMIT_ERROR"
    /\ loc[p].workItemId \notin Ids(work_items)

\* C2: after a successful createWorkItem with a parent_id exactly one lineage
\* edge has the new item as child, it is a 'contains' edge from the given
\* parent, and the new item has exactly one history row, (null -> draft).
C2_EdgeAndHistoryAfterCreate ==
  [][\A p \in Procs :
       (CommitOK(p) /\ op[p].kind = "create" /\ op[p].data.parent_id # NoId) =>
         LET id == loc[p].workItemId
             E == {e \in lineage_edges' : e.child_id = id}
             H == HistoryOf(status_history', id)
         IN /\ Cardinality(E) = 1
            /\ \A e \in E : /\ e.relation_type = "contains"
                            /\ e.parent_id = op[p].data.parent_id
            /\ Len(H) = 1
            /\ H[1].from_status = NullStatus
            /\ H[1].to_status = "draft"]_vars

\* C2 witness: a create with a parent_id has succeeded.
C2_Witness ==
  \E p \in Procs :
    /\ pc[p] = "done"
    /\ result[p].ok
    /\ op[p].kind = "create"
    /\ op[p].data.parent_id # NoId
    /\ \E e \in lineage_edges : e.child_id = loc[p].workItemId

ParentlessObjective(p) ==
  /\ op[p].kind = "create"
  /\ op[p].data.type = "objective"
  /\ op[p].data.parent_id = NoId

\* C3 as stated: createWorkItem of an objective with no parent_id is rejected
\* for no principal.
C3_ObjectiveNeverRejected ==
  \A p \in Procs :
    (pc[p] = "done" /\ ParentlessObjective(p)) =>
      result[p].err # "LINEAGE_REQUIRED"

\* C3 amended: createWorkItem of an objective with no parent_id is never
\* rejected by the parent-required rule, whatever the principal's roles; it
\* fails with LINEAGE_REQUIRED exactly when the policy gateway denies the
\* create action (a denial of the remote service, or under fallback a
\* principal without a Manager-or-above role).
C3_ObjectiveNeedsNoParent ==
  \A p \in Procs :
    (pc[p] \notin {"idle", "c_check"} /\ ParentlessObjective(p)) =>
      /\ loc[p].lineageCheck.reason # LineageRuleReason
      /\ ~loc[p].lineageCheck.allowed <=>
           (pc[p] = "done" /\ result[p].err = "LINEAGE_REQUIRED")
      /\ ~loc[p].lineageCheck.allowed =>
           \/ loc[p].lineageCheck.reason = "remote"
           \/ /\ loc[p].lineageCheck.reason = "Denied by fallback authorization"
              /\ op[p].user.roles \cap
                   {"Manager", "Director", "VP", "President", "CEO"} = {}

\* C3 witness: a principal whose only role is Contributor has created a
\* parentless objective.
C3_Witness ==
  \E p \in Procs :
    /\ pc[p] = "done"
    /\ result[p].ok
    /\ ParentlessObjective(p)
    /\ op[p].user.roles = {"Contributor"}

ParentlessNonObjective(p) ==
  /\ OpOf(p).kind = "create"
  /\ OpOf(p).data.type # "objective"
  /\ OpOf(p).data.parent_id = NoId

IsExecutive(user) == "CEO" \in user.roles \/ "President" \in user.roles

C4_State ==
  \A p \in Procs :
    (/\ pc[p] \notin {"idle", "c_check"}
     /\ op[p].kind = "create"
     /\ op[p].data.type # "objective"
     /\ op[p].data.parent_id = NoId) =>
      IF IsExecutive(op[p].user)
        THEN loc[p].lineageCheck.reason # LineageRuleReason
        ELSE /\ pc[p] = "done"
             /\ result[p].err = "LINEAGE_REQUIRED"
             /\ loc[p].workItemId = NoId

C4_Step ==
  \A p \in Procs :
    (Acting(p) /\ ParentlessNonObjective(p) /\ ~IsExecutive(OpOf(p).user)) =>
      UNCHANGED <<store, events>>

\* C4: createWorkItem of a non-objective type with no parent_id by a principal
\* holding neither CEO nor President fails with LINEAGE_REQUIRED, writes
\* nothing and publishes nothing; for a holder of CEO or President the
\* parent-required rule does not reject it.
C4_LineageRequired == []C4_State /\ [][C4_Step]_vars

\* C4 witness: the policy allowed the create and the parent-required rule
\* rejected it.
C4_Witness ==
  \E p \in Procs :
    /\ pc[p] = "done"
    /\ op[p].kind = "create"
    /\ op[p].data.type # "objective"
    /\ op[p].data.parent_id = NoId
    /\ ~IsExecutive(op[p].user)
    /\ result[p].err = "LINEAGE_REQUIRED"
    /\ loc[p].lineageCheck.reason = LineageRuleReason

\* C5: a createWorkItem that read its parent and whose (parent type, child
\* type) pair is not in the hierarchy table fails with INVALID_HIERARCHY, and
\* the step leaves work_items, lineage_edges, status_history and the published
\* events as they were.
C5_InvalidHierarchy ==
  [][\A p \in Procs :
       (/\ pc[p] = "c_parent"
        /\ Acting(p)
        /\ loc'[p].parent # {}
        /\ \A w \in loc'[p].parent :
             <<w.type, op[p].data.type>> \notin HierarchyTable) =>
         /\ pc'[p] = "done"
         /\ result'[p].err = "INVALID_HIERARCHY"
         /\ tx'[p] = EmptyTx
         /\ UNCHANGED <<store, events>>]_vars

\* C5 witness: a create under a readable parent of a type that cannot contain
\* it was rejected.
C5_Witness ==
  \E p \in Procs :
    /\ pc[p] = "done"
    /\ op[p].kind = "create"
    /\ result[p].err = "INVALID_HIERARCHY"
    /\ \E w \in loc[p].parent :
         w.id = op[p].data.parent_id /\ w.type = "strategy"
    /\ op[p].data.type = "strategy"

\* C6: validateParentChildRelationship(parentType, childType) returns valid
\* with no errors exactly for the four pairs of the hierarchy table, and for
\* each of the other 21 pairs returns invalid with an error that names the
\* parent type and the child type.
C6_ValidatorTable ==
  /\ Cardinality({pair \in WorkItemType \X WorkItemType :
        validateParentChildRelationship(pair[1], pair[2]).valid}) = 4
  /\ ret.fn = "validateParentChildRelationship" =>
       IF <<call.parentType, call.childType>> \in HierarchyTable
         THEN ret.value.valid /\ ret.value.errors = <<>>
         ELSE /\ ~ret.value.valid
              /\ Len(ret.value.errors) = 1
              /\ \E i, j \in DOMAIN ret.value.errors[1] :
                   /\ i # j
                   /\ ret.value.errors[1][i] = call.parentType
                   /\ ret.value.errors[1][j] = call.childType

\* C6 witness: the validator has rejected a strategy under a task.
C6_Witness ==
  /\ ret.fn = "validateParentChildRelationship"
  /\ call.parentType = "task"
  /\ call.childType = "strategy"
  /\ ~ret.value.valid

\* C7: a createWorkItem whose parent_id names no item, an item of another
\* tenant, or an item the principal may not read fails with PARENT_NOT_FOUND
\* at the parent lookup and inserts no work item, edge or history row.
C7_ParentNotFound ==
  [][\A p \in Procs :
       (/\ pc[p] = "c_parent"
        /\ Acting(p)
        /\ \/ \A w \in work_items :
                w.id = op[p].data.parent_id => w.tenant_id # op[p].user.tenant_id
           \/ loc'[p].parent = {}) =>
         /\ pc'[p] = "done"
         /\ result'[p].err = "PARENT_NOT_FOUND"
         /\ tx'[p] = EmptyTx
         /\ loc'[p].workItemId = NoId
         /\ UNCHANGED <<store, events>>]_vars

\* C7 witness: a create under an item of another tenant was answered
\* PARENT_NOT_FOUND.
C7_Witness ==
  \E p \in Procs :
    /\ pc[p] = "done"
    /\ op[p].kind = "create"
    /\ result[p].err = "PARENT_NOT_FOUND"
    /\ \E w \in work_items :
         w.id = op[p].data.parent_id /\ w.tenant_id # op[p].user.tenant_id

StartsOnly(p) == op[p].kind = "update" /\ op[p].data = StartRequest

RowOf(rows, id) == CHOOSE w \in rows : w.id = id

\* C8: updateWorkItem with only {status: in_progress} on an item whose
\* started_at is null sets started_at to the update time and appends one
\* history row (old status -> in_progress); the same update applied to an
\* item whose started_at is set leaves started_at as it was.
C8_StartedAtStamp ==
  [][\A p \in Procs :
       (CommitOK(p) /\ StartsOnly(p)) =>
         LET existing == CHOOSE w \in loc[p].existing : TRUE
             last == status_history'[Len(status_history')]
         IN /\ Len(status_history') = Len(status_history) + 1
            /\ last.work_item_id = op[p].id
            /\ last.from_status = existing.status
            /\ last.to_status = "in_progress"
            /\ existing.started_at = NullDate =>
                 RowOf(work_items', op[p].id).started_at = loc[p].now
            /\ existing.started_at # NullDate =>
                 RowOf(work_items', op[p].id).started_at =
                   RowOf(work_items, op[p].id).started_at]_vars

\* C8 witness: the update has been applied a second time, later than the
\* first, and returned the started_at of the first.
C8_Witness ==
  \E p \in Procs :
    /\ pc[p] = "done"
    /\ result[p].ok
    /\ StartsOnly(p)
    /\ \E w \in loc[p].existing : \E v \in result[p].value :
         /\ w.started_at # NullDate
         /\ w.status = "in_progress"
         /\ v.started_at = w.started_at
         /\ loc[p].now > w.started_at

\* C9: started_at and completed_at are one-shot: once either is non-null for
\* a work item, no later committed update changes it.
C9_StampsOneShot ==
  [][\A w \in work_items : \A v \in work_items' :
       v.id = w.id =>
         /\ w.started_at # NullDate => v.started_at = w.started_at
         /\ w.completed_at # NullDate => v.completed_at = w.completed_at]_vars

EmptyUpdate(p) == OpOf(p).kind = "update" /\ OpOf(p).data = EmptyRequest

\* C10: updateWorkItem with a request in which no updatable field is present
\* returns the existing record as it read it, writes nothing to work_items
\* (updated_at included), appends no history row and publishes no event.
C10_EmptyUpdateIsNoOp ==
  [][\A p \in Procs :
       (Acting(p) /\ EmptyUpdate(p)) =>
         /\ UNCHANGED <<store, events>>
         /\ tx'[p] = EmptyTx
         /\ (pc'[p] = "done" /\ result'[p].ok) =>
              /\ result'[p].value = loc[p].existing
              /\ loc[p].existing # {}]_vars

\* C10 witness: an update with no field present has returned the record.
C10_Witness ==
  \E p \in Procs :
    /\ pc[p] = "done"
    /\ result[p].ok
    /\ op[p].kind = "update"
    /\ op[p].data = EmptyRequest
    /\ result[p].value = loc[p].existing
    /\ result[p].value \subseteq work_items
    /\ result[p].value # {}

\* C11: deleteWorkItem that counts one or more lineage edges with the item as
\* parent fails with CANNOT_DELETE_PARENT; the item, the edges, the children,
\* the history rows and the published events are as they were.
C11_CannotDeleteParent ==
  [][\A p \in Procs :
       (/\ pc[p] = "d_count"
        /\ Acting(p)
        /\ \E e \in lineage_edges : e.parent_id = op[p].id) =>
         /\ pc'[p] = "done"
         /\ result'[p].err = "CANNOT_DELETE_PARENT"
         /\ tx'[p] = EmptyTx
         /\ UNCHANGED <<store, events>>]_vars

\* C11 witness: the delete of an item with a child was rejected, and the item
\* and its child edge are still there.
C11_Witness ==
  \E p \in Procs :
    /\ pc[p] = "done"
    /\ op[p].kind = "delete"
    /\ result[p].err = "CANNOT_DELETE_PARENT"
    /\ op[p].id \in Ids(work_items)
    /\ \E e \in lineage_edges :
         e.parent_id = op[p].id /\ e.child_id \in Ids(work_items)

AbsentFor(user, id) ==
  \A w \in work_items : w.id = id => w.tenant_id # user.tenant_id

\* C13: getWorkItemById returns null when no item of that id is in the
\* principal's tenant and when the item is there but the read check denies;
\* the two answers are the same value, and the call changes nothing.
C13_NullForAbsentAndUnreadable ==
  [][\A p \in Procs :
       (pc[p] = "g_read" /\ Acting(p)) =>
         /\ (AbsentFor(op[p].user, op[p].id) \/ loc'[p].readDenied) =>
              result'[p] = [ok |-> TRUE, err |-> "none", value |-> {}]
         /\ ~(AbsentFor(op[p].user, op[p].id) \/ loc'[p].readDenied) =>
              /\ result'[p].value = RowsById(op[p].id)
              /\ result'[p].value # {}
         /\ ~(AbsentFor(op[p].user, op[p].id) /\ loc'[p].readDenied)
         /\ UNCHANGED <<store, events, tx, locks>>]_vars

\* C13 witness: one lookup of an id with no item and one lookup of an item the
\* read check denied have both returned, with equal results.
C13_Witness ==
  \E p \in Procs, q \in Procs :
    /\ pc[p] = "done" /\ op[p].kind = "get"
    /\ pc[q] = "done" /\ op[q].kind = "get"
    /\ AbsentFor(op[p].user, op[p].id)
    /\ ~loc[p].readDenied
    /\ ~AbsentFor(op[q].user, op[q].id)
    /\ loc[q].readDenied
    /\ result[p] = result[q]
    /\ result[p].value = {}

\* C14: updateWorkItem and deleteWorkItem on an item that exists but that the
\* principal cannot read (another tenant's, or the read check denies) fail
\* with WORK_ITEM_NOT_FOUND, the answer an absent id gets, never with
\* INSUFFICIENT_PERMISSIONS, and change nothing in the store.
C14_UnreadableIsNotFound ==
  [][\A p \in Procs :
       (pc[p] \in {"u_read", "d_read"} /\ Acting(p)) =>
         LET unreadable == AbsentFor(op[p].user, op[p].id) \/ loc'[p].readDenied
             NotFound == [ok |-> FALSE, err |-> "WORK_ITEM_NOT_FOUND",
                          value |-> {}]
         IN /\ unreadable =>
                 /\ pc'[p] = "done"
                 /\ result'[p] = NotFound
                 /\ tx'[p] = EmptyTx
                 /\ UNCHANGED <<store, events>>
            /\ result'[p].err = "INSUFFICIENT_PERMISSIONS" =>
                 /\ ~unreadable
                 /\ loc'[p].existing = RowsById(op[p].id)
                 /\ UNCHANGED <<store, events>>]_vars

\* C14 witness: an update of an item that is there, in the principal's tenant,
\* was answered WORK_ITEM_NOT_FOUND because the read check denied.
C14_Witness ==
  \E p \in Procs :
    /\ pc[p] = "done"
    /\ op[p].kind = "update"
    /\ result[p].err = "WORK_ITEM_NOT_FOUND"
    /\ loc[p].readDenied
    /\ \E w \in work_items :
         w.id = op[p].id /\ w.tenant_id = op[p].user.tenant_id

\* In a chain, item i is a base row of the listing.
ChainBase(params, user, i) ==
  /\ user.tenant_id = "tA"
  /\ params.type # Undefined => ChainType(i) = params.type
  /\ params.parent_id # NoId => (i > 1 /\ params.parent_id = i - 1)

\* C15: getWorkItemsWithLineage returns at most one row of each work-item
\* id, the row kept is the one of smallest depth, and no row has a depth
\* above 10, however long the chain.
C15_OneRowPerIdDepthCapped ==
  ret.fn = "getWorkItemsWithLineage" =>
    /\ \A i, j \in DOMAIN ret.value :
         ret.value[i].item.id = ret.value[j].item.id => i = j
    /\ \A i \in DOMAIN ret.value :
         LET r == ret.value[i]
         IN /\ r.depth <= 10
            /\ r.depth \in 0..(r.item.id - 1)
            /\ ChainBase(call.params, call.user, r.item.id - r.depth)
            /\ \A d \in 0..(r.depth - 1) :
                 ~ChainBase(call.params, call.user, r.item.id - d)

\* C15 witness: a listing under the first item of a chain of 13 returned the
\* item at depth 10 and not the one at depth 11.
C15_Witness ==
  /\ ret.fn = "getWorkItemsWithLineage"
  /\ Cardinality(work_items) = 13
  /\ call.params.parent_id = 1
  /\ call.params.offset = 0
  /\ call.params.limit = 0
  /\ Len(ret.value) = 11
  /\ ret.value[11].item.id = 12
  /\ ret.value[11].depth = 10

\* p is creating a child under an existing parent while q is doing the same.
Siblings(p, q) ==
  /\ p # q
  /\ op[p].kind = "create" /\ op[q].kind = "create"
  /\ op[p].data.parent_id # NoId
  /\ op[p].data.parent_id = op[q].data.parent_id

\* C16, the state: a create is never refused for a taken (parent, child)
\* pair, and the edge insert of a create whose parent is there can succeed
\* whenever the only other holders of the parent row are creates.
C16_State ==
  \A p \in Procs :
    /\ (pc[p] = "done" /\ op[p].kind = "create") =>
         result[p].err # "UNIQUE_VIOLATION"
    /\ (/\ pc[p] = "c_edge"
        /\ RowsById(op[p].data.parent_id) # {}
        /\ \A l \in locks : l.owner # p => op[l.owner].kind = "create") =>
         ENABLED (CreateEdge(p) /\ pc'[p] = "c_edge_pub")

\* C16, the COMMIT of a create under a parent: it adds the edge from the
\* parent to the new child, an edge distinct from every edge there, and keeps
\* the edges of the other children.
C16_Step ==
  \A p \in Procs :
    (CommitOK(p) /\ op[p].kind = "create" /\ op[p].data.parent_id # NoId) =>
      \E e \in lineage_edges' :
        /\ e.parent_id = op[p].data.parent_id
        /\ e.child_id = loc[p].workItemId
        /\ e \notin lineage_edges
        /\ \A f \in lineage_edges : f.id # e.id /\ f.child_id # e.child_id
        /\ lineage_edges' = lineage_edges \cup {e}

\* C16: two concurrent createWorkItem calls of two children under one parent
\* do not hinder each other under any interleaving, and when both have
\* succeeded the parent has two distinct edges, one to each child.
C16_SiblingCreates == []C16_State /\ [][C16_Step]_vars

\* C16 witness: two creates under the same parent ran side by side, both
\* succeeded, and the parent has one edge to each of the two children.
C16_Witness ==
  \E p \in Procs, q \in Procs :
    /\ Siblings(p, q)
    /\ pc[p] = "done" /\ result[p].ok
    /\ pc[q] = "done" /\ result[q].ok
    /\ loc[p].workItemId # loc[q].workItemId
    /\ Cardinality({e \in lineage_edges :
          /\ e.parent_id = op[p].data.parent_id
          /\ e.child_id \in {loc[p].workItemId, loc[q].workItemId}}) = 2

C18_NoEventOfRolledBack ==
  \A p \in Procs :
    (pc[p] = "done" /\ op[p].kind = "create" /\ ~result[p].ok) =>
      \A i \in DOMAIN events : events[i].work_item_id # loc[p].workItemId

\* C18, one step: a request publishes an event only when its transaction has
\* nothing uncommitted.
C18_PublishStep ==
  \A p \in Procs : (Acting(p) /\ events' # events) => tx[p] = EmptyTx

\* C18: every event is published only after the transaction of its mutation
\* has committed; no event is published for a mutation that is rolled back.
C18_EventsAfterCommit == []C18_NoEventOfRolledBack /\ [][C18_PublishStep]_vars

\* C19: a failure to publish an event is swallowed: the operation goes on to
\* COMMIT and returns its normal result.
C19_PublishFailureSwallowed ==
  \A p \in Procs : pc[p] = "done" => result[p].err # "PUBLISH_ERROR"

\* C20: evaluatePolicy returns a decision whatever the remote call does; when
\* the call fails the decision's allowed is fallbackAuthorization(user,
\* action, resource) and its policy_id is a degraded-decision tag; a decision
\* of the remote service is returned as the service gave it.
C20_GatewayAlwaysDecides ==
  ret.fn = "evaluatePolicy" =>
    /\ ret.value.allowed \in BOOLEAN
    /\ IF call.remote \in {"allow", "deny"}
         THEN /\ ret.value.allowed = (call.remote = "allow")
              /\ ret.value.policy_id \notin {"fallback_authorization",
                                             "error_deny"}
         ELSE /\ ret.value.allowed =
                   fallbackAuthorization(call.user, call.action, call.resource)
              /\ ret.value.policy_id \in {"fallback_authorization",
                                          "error_deny"}

\* C20 witness: the remote call timed out and the fallback allowed.
C20_Witness ==
  /\ ret.fn = "evaluatePolicy"
  /\ call.remote = "timeout"
  /\ ret.value.allowed
  /\ ret.value.policy_id = "fallback_authorization"

\* The fallback decision table of the specification: the owner override
\* covers read and update only.
FallbackTable(user, action, resource) ==
  /\ user.tenant_id = resource.tenant_id
  /\ \/ CASE action \in {"create", "update"} ->
               user.roles \cap {"Manager", "Director", "VP", "President",
                                "CEO"} # {}
          [] action = "delete" ->
               user.roles \cap {"Director", "VP", "President", "CEO"} # {}
          [] action = "read" -> user.roles # {}
          [] OTHER -> FALSE
     \/ action \in {"read", "update"} /\ resource.owner_id = user.id

\* C21: the fallback decision is allowed iff the principal's tenant is the
\* resource's and (the principal holds a role required for the action, or the
\* action is read or update and the principal owns the resource); an owner
\* without a Director-or-above role is denied delete.
C21_FallbackTable ==
  (ret.fn = "evaluatePolicy" /\ ret.value.policy_id = "fallback_authorization")
    => ret.value.allowed = FallbackTable(call.user, call.action, call.resource)

\* C22: the fallback is consulted only when the remote call fails: when the
\* service answers with the decision allowed = false, evaluatePolicy returns
\* allowed = false and the service's decision, whatever the role table says;
\* a decision tagged as the fallback's comes from a failed call only.
C22_ExplicitDenyStands ==
  ret.fn = "evaluatePolicy" =>
    /\ call.remote = "deny" =>
         /\ ~ret.value.allowed
         /\ ret.value = [allowed |-> FALSE, policy_id |-> "remote_policy",
                         reason |-> "remote"]
    /\ ret.value.policy_id = "fallback_authorization" =>
         call.remote \in {"transport_error", "timeout", "unsuccessful"}

\* C22 witness: the service denied a delete the role table allows (a CEO of
\* the resource's tenant), and the answer is the denial.
C22_Witness ==
  /\ ret.fn = "evaluatePolicy"
  /\ call.remote = "deny"
  /\ call.action = "delete"
  /\ call.user.roles = {"CEO"}
  /\ fallbackAuthorization(call.user, call.action, call.resource)
  /\ ~ret.value.allowed

\* C23: the gateway has one failure behaviour: when the remote call fails,
\* the source build and the compiled build of evaluatePolicy return the same
\* allowed and the same policy_id, for every principal, action and resource.
C23_OneFailureBehaviour ==
  (ret.fn = "evaluatePolicy" /\ call.remote \notin {"allow", "deny"}) =>
    /\ ret.value.allowed = ret.dist.allowed
    /\ ret.value.policy_id = ret.dist.policy_id

\* p's update or delete check has come back with a denial.
CheckDenied(p) ==
  /\ loc'[p].existing # {}
  /\ IF op[p].kind = "update" THEN ~loc'[p].canUpdate ELSE ~loc'[p].canDelete

\* C24, the state: for an item of the principal's tenant the gateway may deny
\* the check, and the request then ends with INSUFFICIENT_PERMISSIONS.
C24_State ==
  \A p \in Procs :
    /\ (pc[p] = "u_read" /\ ~AbsentFor(op[p].user, op[p].id)) =>
         ENABLED (UpdateRead(p) /\ result'[p].err = "INSUFFICIENT_PERMISSIONS")
    /\ (pc[p] = "d_read" /\ ~AbsentFor(op[p].user, op[p].id)) =>
         ENABLED (DeleteRead(p) /\ result'[p].err = "INSUFFICIENT_PERMISSIONS")

\* C24, the step of the check: a denial for a readable item ends the request
\* with INSUFFICIENT_PERMISSIONS and nothing else does; the transaction has
\* written nothing, and the tables and the events are as they were.
C24_Step ==
  \A p \in Procs :
    (pc[p] \in {"u_read", "d_read"} /\ Acting(p)) =>
      /\ CheckDenied(p) <=> result'[p].err = "INSUFFICIENT_PERMISSIONS"
      /\ CheckDenied(p) =>
           /\ pc'[p] = "done"
           /\ ~result'[p].ok
           /\ loc'[p].existing = RowsById(op[p].id)
           /\ tx'[p] = EmptyTx
           /\ UNCHANGED <<store, events>>

\* C24: when the policy gateway denies the update (resp. delete) check for a
\* readable item, updateWorkItem (resp. deleteWorkItem) fails with
\* INSUFFICIENT_PERMISSIONS; the item, its edges and its history are
\* unchanged and no event is published.
C24_DeniedIsInsufficientPermissions == []C24_State /\ [][C24_Step]_vars

\* C24 witness: a delete of a readable item by a principal of its tenant was
\* denied; the item is in the table as the handler read it and the request
\* published nothing.
C24_Witness ==
  \E p \in Procs :
    /\ pc[p] = "done"
    /\ op[p].kind = "delete"
    /\ result[p].err = "INSUFFICIENT_PERMISSIONS"
    /\ loc[p].existing # {}
    /\ loc[p].existing \subseteq work_items
    /\ \A i \in DOMAIN events : events[i].type # "deleted"

\* The fields a request may set, and the fields no request sets.
UpdatableFields ==
  {"title", "description", "status", "priority", "owner_id", "due_at",
   "metadata"}
FixedFields == {"id", "tenant_id", "type", "created_by", "created_at"}

\* C25: the COMMIT of an updateWorkItem changes the one row of the item and
\* in it only the fields present in the request, updated_at, and started_at /
\* completed_at when the request sets the status in_progress / completed:
\* every updatable field absent from the request, and id, tenant_id, type,
\* created_by and created_at, have the value they had before.
C25_PartialUpdate ==
  [][\A p \in Procs :
       (CommitOK(p) /\ op[p].kind = "update" /\ RowsById(op[p].id) # {}) =>
         LET w == RowOf(work_items, op[p].id)
             d == op[p].data
         IN /\ op[p].id \in Ids(work_items')
            /\ work_items' \ {RowOf(work_items', op[p].id)} = work_items \ {w}
            /\ LET v == RowOf(work_items', op[p].id)
               IN /\ \A f \in UpdatableFields :
                       v[f] = IF d[f] = Undefined THEN w[f] ELSE d[f]
                  /\ \A f \in FixedFields : v[f] = w[f]
                  /\ d.status # "in_progress" => v.started_at = w.started_at
                  /\ d.status # "completed" => v.completed_at = w.completed_at]_vars

\* C25 witness: an item that an earlier update had started was given a new
\* owner by a request that names the owner only; it is still in progress,
\* with its title and its started_at.
C25_Witness ==
  \E p \in Procs :
    /\ pc[p] = "done"
    /\ result[p].ok
    /\ op[p].kind = "update"
    /\ op[p].data = ReassignRequest
    /\ \E v \in work_items :
         /\ v.id = op[p].id
         /\ v \in result[p].value
         /\ v.owner_id = "u2"
         /\ v.status = "in_progress"
         /\ v.started_at # NullDate
         /\ v.title = "t1"

\* C26: in every reachable state the lineage edges form a forest: every edge
\* is a 'contains' edge between two different existing work items of the
\* edge's tenant, no item is the child of two edges, and no set of items is
\* closed under taking the parent (there is no cycle).
C26_EdgesFormForest ==
  /\ \A e \in lineage_edges :
       /\ e.relation_type = "contains"
       /\ e.parent_id # e.child_id
       /\ \E w \in work_items : w.id = e.parent_id /\ w.tenant_id = e.tenant_id
       /\ \E w \in work_items : w.id = e.child_id /\ w.tenant_id = e.tenant_id
  /\ \A e \in lineage_edges : \A f \in lineage_edges :
       e.child_id = f.child_id => e = f
  /\ \A S \in SUBSET Ids(work_items) :
       S # {} =>
         \E i \in S : \A e \in lineage_edges :
           e.child_id = i => e.parent_id \notin S

\* C26 witness: a create under an item and a delete of that item ran side by
\* side and both committed; the edge went with the parent.
C26_Witness ==
  \E p \in Procs, q \in Procs :
    /\ pc[p] = "done" /\ result[p].ok /\ op[p].kind = "create"
    /\ pc[q] = "done" /\ result[q].ok /\ op[q].kind = "delete"
    /\ op[p].data.parent_id = op[q].id
    /\ loc[p].workItemId \in Ids(work_items)
    /\ lineage_edges = {}

\* C27: a work item is deleted only when it has no child, under every
\* interleaving of createWorkItem(parent = P) and deleteWorkItem(P): every
\* committed item that is not an objective (it was created under a parent)
\* has an edge from a parent that is an existing work item.
C27_ChildKeepsParent ==
  \A w \in work_items :
    w.type # "objective" =>
      \E e \in lineage_edges :
        e.child_id = w.id /\ e.parent_id \in Ids(work_items)

UserOf(userId) == CHOOSE u \in Users : u.id = userId

\* Listings asked for in the tenant-isolation check.
IsolationParams(ids) ==
  { [type |-> Undefined, parent_id |-> par, limit |-> l, offset |-> 0] :
      par \in ids \cup {NoId}, l \in {0, 1} }

\* C28, the read operations as functions of the tables: whatever they give a
\* principal is of the principal's tenant.
C28_Views ==
  /\ \A u \in Users : \A id \in KnownIds :
       /\ \A r \in RemoteOutcomes : \A w \in getWorkItemById(u, id, r) :
            w.tenant_id = u.tenant_id
       /\ \A x \in getLineageForWorkItem(u, id) :
            /\ x.edge.tenant_id = u.tenant_id
            /\ \A w \in work_items :
                 w.id \in {x.edge.parent_id, x.edge.child_id} =>
                   w.tenant_id = u.tenant_id
  /\ \A u \in Users : \A q \in IsolationParams(Ids(work_items)) :
       \A r \in {"allow", "down"} :
         LET rows == getWorkItemsWithLineage(u, q,
                       [i \in Ids(work_items) |-> r])
         IN \A i \in DOMAIN rows : rows[i].item.tenant_id = u.tenant_id

\* C28, the state: whatever a request has returned is of its principal's
\* tenant, every row carries the tenant of the principal that created it,
\* and the read operations give own-tenant rows over every value the tables
\* take (the tables change in a COMMIT only, which leaves its request
\* answered).
C28_State ==
  /\ (\E p \in Procs : pc[p] = "done" /\ result[p].ok) => C28_Views
  /\ \A p \in Procs : \A w \in result[p].value :
       w.tenant_id = op[p].user.tenant_id
  /\ \A w \in work_items : w.tenant_id = UserOf(w.created_by).tenant_id
  /\ \A e \in lineage_edges : e.tenant_id = UserOf(e.created_by).tenant_id

\* C28, one step that changes the tables: it is the COMMIT of a request, of
\* tenant T say; the rows of the other tenants are as they were, and so is
\* everything the read operations give a principal of another tenant.
C28_Step ==
  store' # store =>
    \E p \in Procs :
      /\ CommitOK(p)
      /\ LET T == op[p].user.tenant_id
             Foreign(r) ==
               \E w \in work_items \cup work_items' :
                 w.id = r.work_item_id /\ w.tenant_id # T
         IN /\ {w \in work_items' : w.tenant_id # T} =
                 {w \in work_items : w.tenant_id # T}
            /\ {e \in lineage_edges' : e.tenant_id # T} =
                 {e \in lineage_edges : e.tenant_id # T}
            /\ SelectSeq(status_history', Foreign) =
                 SelectSeq(status_history, Foreign)
            /\ \A u \in {v \in Users : v.tenant_id # T} :
                 \A ids \in {Ids(work_items) \cup Ids(work_items')} :
                   /\ \A id \in ids \cup {GhostId} :
                        /\ \A r \in RemoteOutcomes :
                             getWorkItemById(u, id, r)' =
                               getWorkItemById(u, id, r)
                        /\ getLineageForWorkItem(u, id)' =
                             getLineageForWorkItem(u, id)
                   /\ \A q \in IsolationParams(ids) :
                        \A r \in {"allow", "down"} :
                          LET remote == [i \in ids |-> r]
                          IN getWorkItemsWithLineage(u, q, remote)' =
                               getWorkItemsWithLineage(u, q, remote)

\* C28: tenant isolation.  For a principal of tenant A no exposed operation
\* (create, update, delete, getWorkItemById, getWorkItemsWithLineage,
\* getLineageForWorkItem) returns, modifies or deletes a work item, lineage
\* edge or history row of another tenant; every row the principal creates
\* carries tenant A; and what A is given does not depend on the other
\* tenants' data: no step of another tenant's request changes it.
C28_TenantIsolation == C28_Views /\ []C28_State /\ [][C28_Step]_vars

\* C28 witness: tenant A and tenant B each have an item, and a principal of
\* tenant B has asked to update or delete tenant A's item and was answered
\* that there is none.
C28_Witness ==
  \E p \in Procs :
    /\ pc[p] = "done"
    /\ op[p].kind \in {"update", "delete"}
    /\ op[p].user.tenant_id = "tB"
    /\ result[p].err = "WORK_ITEM_NOT_FOUND"
    /\ \E w \in work_items : w.id = op[p].id /\ w.tenant_id = "tA"

\* C29: every exposed operation passes an authorization check: a request that
\* has returned data about an item, or has mutated one, got an allowed from
\* the policy gateway while it ran.
C29_EveryOperationAuthorized ==
  \A p \in Procs :
    (/\ pc[p] = "done"
     /\ result[p].ok
     /\ result[p].value # {} \/ op[p].kind \in {"create", "update", "delete"}) =>
      loc[p].authorized

IsPrefix(a, b) == Len(a) <= Len(b) /\ SubSeq(b, 1, Len(a)) = a

RECURSIVE Ascend(_, _)
Ascend(ids, n) ==
  IF n = 0 THEN ids
  ELSE Ascend(ids \cup {e.parent_id : e \in {f \in lineage_edges :
                                               f.child_id \in ids}}, n - 1)

\* C31: every row getWorkItemsWithLineage returns is an item matching the
\* filters or an ancestor of one, reached from child to parent in at most 10
\* steps; an item that is only a descendant of a matching item is not added.
C31_MatchesAndAncestorsOnly ==
  ret.fn = "getWorkItemsWithLineage" =>
    LET matching == {r.item.id : r \in BaseRows(call.user, call.params)}
    IN \A i \in DOMAIN ret.value :
         ret.value[i].item.id \in Ascend(matching, MaxDepth)

\* The rows the query of getWorkItemsWithLineage yields before the read filter.
QueriedRows(user, params) ==
  LimitOffset(OrderByIdDepth(DistinctOnId(lineage_tree(user, params))),
              IF params.limit = 0 THEN DefaultLimit ELSE params.limit,
              params.offset)

\* C32: every row getWorkItemsWithLineage returns passed the read check for
\* the requesting principal, every queried row the check denies is dropped,
\* and the rows returned are no more than the requested limit.
C32_AuthorizedAndWithinLimit ==
  ret.fn = "getWorkItemsWithLineage" =>
    LET rows == QueriedRows(call.user, call.params)
        CanRead(r) == canReadWorkItem(call.user, r.item, ret.remote[r.item.id])
    IN /\ \A i \in DOMAIN ret.value : CanRead(ret.value[i])
       /\ \A i \in DOMAIN rows :
            ~CanRead(rows[i]) =>
              \A j \in DOMAIN ret.value : ret.value[j] # rows[i]
       /\ Len(ret.value) <= call.params.limit

\* The same with the limit the query is given: the requested one, or the
\* default for a requested limit of 0.
C32_AuthorizedAndWithinEffectiveLimit ==
  ret.fn = "getWorkItemsWithLineage" =>
    LET rows == QueriedRows(call.user, call.params)
        CanRead(r) == canReadWorkItem(call.user, r.item, ret.remote[r.item.id])
    IN /\ \A i \in DOMAIN ret.value : CanRead(ret.value[i])
       /\ \A i \in DOMAIN rows :
            ~CanRead(rows[i]) =>
              \A j \in DOMAIN ret.value : ret.value[j] # rows[i]
       /\ Len(ret.value) <= IF call.params.limit = 0 THEN DefaultLimit
                            ELSE call.params.limit

\* C33: a request obtains its store connection once, so the requests running
\* at one time are never all holding a client of the pool while each waits
\* for a further one that the pool does not have.
C33_NoHoldAndWait ==
  ~(/\ ~ClientFree
    /\ \A p \in Procs : InTransaction(p) /\ AtPoolQuery(p))

\* C34: in the COMMIT of an updateWorkItem whose request contains status the
\* item's history gains exactly one row, (the status read -> the requested
\* status) with changed_by the principal, also when the two are equal; in the
\* COMMIT of one whose request has no status the history stays as it is.
C34_OneHistoryRowPerStatusUpdate ==
  [][\A p \in Procs :
       (CommitOK(p) /\ op[p].kind = "update") =>
         LET existing == CHOOSE w \in loc[p].existing : TRUE
         IN IF op[p].data.status # Undefined
              THEN /\ HistoryOf(status_history', op[p].id) =
                        Append(HistoryOf(status_history, op[p].id),
                               [work_item_id |-> op[p].id,
                                from_status |-> existing.status,
                                to_status |-> op[p].data.status,
                                changed_by |-> op[p].user.id])
                   /\ Len(status_history') = Len(status_history) + 1
              ELSE status_history' = status_history]_vars

\* C34 witness: an update to in_progress of an item that was in_progress has
\* committed and the item's last history row is (in_progress -> in_progress);
\* the update was sent by another principal than the item's creator.
C34_Witness ==
  \E p \in Procs :
    /\ pc[p] = "done"
    /\ result[p].ok
    /\ op[p].kind = "update"
    /\ op[p].data.status = "in_progress"
    /\ LET H == HistoryOf(status_history, op[p].id)
       IN /\ Len(H) = 3
          /\ H[3].from_status = "in_progress"
          /\ H[3].to_status = "in_progress"
          /\ H[3].changed_by = op[p].user.id
          /\ H[3].changed_by # H[1].changed_by

\* C35: the work item a createWorkItem commits, which is the one it returns,
\* has status draft whatever the request carries, the principal's tenant_id,
\* created_by the principal, and as owner_id the request's owner_id when it
\* has one and the principal's id when it has none.
C35_CreatedRowFields ==
  [][\A p \in Procs :
       (CommitOK(p) /\ op[p].kind = "create") =>
         /\ result'[p].value = work_items' \ work_items
         /\ Cardinality(result'[p].value) = 1
         /\ \A w \in result'[p].value :
              /\ w.status = "draft"
              /\ w.tenant_id = op[p].user.tenant_id
              /\ w.created_by = op[p].user.id
              /\ w.owner_id = IF op[p].data.owner_id # Undefined
                                THEN op[p].data.owner_id
                                ELSE op[p].user.id]_vars

\* C35 witness: two creates have committed whose requests carried status
\* completed; u1 named u2 as owner, u3 of the other tenant named no owner.
C35_Witness ==
  /\ \E p \in Procs :
       /\ pc[p] = "done"
       /\ result[p].ok
       /\ op[p].kind = "create"
       /\ op[p].data.status = "completed"
  /\ \E w \in work_items :
       w.created_by = "u1" /\ w.owner_id = "u2" /\ w.tenant_id = "tA"
  /\ \E w \in work_items :
       w.created_by = "u3" /\ w.owner_id = "u3" /\ w.tenant_id = "tB"

\* C36: an updateWorkItem that returns successfully returns a record, and
\* every 'updated' event carries a record as its after-state, whatever a
\* concurrent deleteWorkItem of the same item does.
C36_UpdateReturnsPersistedRecord ==
  /\ \A p \in Procs :
       (pc[p] = "done" /\ result[p].ok /\ op[p].kind = "update") =>
         result[p].value # {}
  /\ \A i \in DOMAIN events :
       events[i].type = "updated" => events[i].after # {}

\* C37: the history rows of every work item, in append order, are a chain
\* from null to the item's status: the first is (null -> draft), each later
\* row starts from the status the row before it ends in, and the last ends
\* in the status the item has.
C37_HistoryIsChain ==
  \A w \in work_items :
    LET H == HistoryOf(status_history, w.id)
    IN /\ Len(H) >= 1
       /\ H[1].from_status = NullStatus
       /\ H[1].to_status = "draft"
       /\ \A i \in 2..Len(H) : H[i].from_status = H[i - 1].to_status
       /\ H[Len(H)].to_status = w.status

\* Every lineage edge joins two items whose types are a pair of the table.
EdgesInHierarchyTable ==
  \A e \in lineage_edges :
    \E wp \in work_items : \E wc \in work_items :
      /\ wp.id = e.parent_id
      /\ wc.id = e.child_id
      /\ <<wp.type, wc.type>> \in HierarchyTable

C39_AuthorizedOnWrittenState ==
  [][\A p \in Procs :
       (/\ CommitOK(p)
        /\ op[p].kind \in {"update", "delete"}
        /\ tx[p] # EmptyTx) =>
         \A read \in loc[p].existing : \A written \in RowsById(op[p].id) :
           \A remote \in RemoteOutcomes :
             IF op[p].kind = "update"
               THEN canUpdateWorkItem(op[p].user, read, remote) =>
                      canUpdateWorkItem(op[p].user, written, remote)
               ELSE canDeleteWorkItem(op[p].user, read, remote) =>
                      canDeleteWorkItem(op[p].user, written, remote)]_vars

\* The fields an update request sets.
Present(data) == {f \in UpdatableFields : data[f] # Undefined}

\* p and q are updates of one item that set disjoint sets of fields, status
\* not among them, and both have committed.
DisjointUpdatesDone(p, q) ==
  /\ p # q
  /\ pc[p] = "done" /\ pc[q] = "done"
  /\ result[p].ok /\ result[q].ok
  /\ op[p].kind = "update" /\ op[q].kind = "update"
  /\ op[p].id = op[q].id
  /\ Present(op[p].data) # {} /\ Present(op[q].data) # {}
  /\ Present(op[p].data) \cap Present(op[q].data) = {}
  /\ "status" \notin Present(op[p].data) \cup Present(op[q].data)

\* C40: when two updateWorkItem calls on one item that set disjoint sets of
\* fields, neither setting the status, have both committed, the item has
\* every field either of them set at the value it set, however their steps
\* were interleaved.
C40_NoLostUpdate ==
  \A p \in Procs : \A q \in Procs :
    DisjointUpdatesDone(p, q) =>
      /\ RowsById(op[p].id) # {}
      /\ \A w \in RowsById(op[p].id) :
           /\ \A f \in Present(op[p].data) : w[f] = op[p].data[f]
           /\ \A f \in Present(op[q].data) : w[f] = op[q].data[f]

\* C40 witness: an update of the owner and an update of title and priority
\* have both committed, and each had read the item before the other
\* committed: both read the old owner and the old title.
C40_Witness ==
  \E p \in Procs : \E q \in Procs :
    /\ DisjointUpdatesDone(p, q)
    /\ op[p].data = ReassignRequest
    /\ op[q].data = RetitleRequest
    /\ \A w \in loc[p].existing \cup loc[q].existing :
         w.owner_id = "u1" /\ w.title = "t1"
    /\ loc[p].existing # {} /\ loc[q].existing # {}
    /\ \E w \in work_items :
         w.owner_id = "u2" /\ w.title = "t2" /\ w.priority = "high"

====
